---- MODULE Spec2Model ----
(***************************************************************************)
(* Model of the Badger archive index store                                 *)
(* (src/applications/otter/data_sources/badger_archive.py).                *)
(*                                                                         *)
(* Text is modelled as sequences of one-character strings so that the      *)
(* string operations the code relies on (split, slicing, startswith,       *)
(* lexicographic comparison of ISO timestamps) are computed, not assumed.  *)
(***************************************************************************)
EXTENDS Integers, Sequences, FiniteSets, TLC

(***************************************************************************)
(* Python text primitives                                                  *)
(***************************************************************************)

\* ord(c) for the characters that occur in the modelled text.
Ord(c) ==
  CASE c = " " -> 32
    [] c = "+" -> 43
    [] c = "-" -> 45
    [] c = "." -> 46
    [] c = "/" -> 47
    [] c \in {"0", "1", "2", "3", "4", "5", "6", "7", "8", "9"} ->
         48 + (CHOOSE i \in 0..9 :
                 <<"0", "1", "2", "3", "4", "5", "6", "7", "8", "9">>[i + 1] = c)
    [] c = ":" -> 58
    [] c = "T" -> 84
    [] c = "_" -> 95
    [] OTHER ->
         96 + (CHOOSE i \in 1..26 :
                 << "a", "b", "c", "d", "e", "f", "g", "h", "i", "j", "k", "l", "m",
                    "n", "o", "p", "q", "r", "s", "t", "u", "v", "w", "x", "y", "z"
                 >>[i] = c)

DigitChars == <<"0", "1", "2", "3", "4", "5", "6", "7", "8", "9">>

IsDigit(c) == c \in {"0", "1", "2", "3", "4", "5", "6", "7", "8", "9"}

DigitVal(c) ==
  CASE c = "0" -> 0 [] c = "1" -> 1 [] c = "2" -> 2 [] c = "3" -> 3
    [] c = "4" -> 4 [] c = "5" -> 5 [] c = "6" -> 6 [] c = "7" -> 7
    [] c = "8" -> 8 [] c = "9" -> 9

MinOf(S) == CHOOSE x \in S : \A y \in S : x <= y

\* Python str < str: code-point lexicographic order.
StrLT(a, b) ==
  LET n    == IF Len(a) < Len(b) THEN Len(a) ELSE Len(b)
      diff == {i \in 1..n : a[i] # b[i]}
  IN  IF diff = {} THEN Len(a) < Len(b)
      ELSE Ord(a[MinOf(diff)]) < Ord(b[MinOf(diff)])

StrLE(a, b) == a = b \/ StrLT(a, b)

StartsWith(s, p) == Len(s) >= Len(p) /\ SubSeq(s, 1, Len(p)) = p

EndsWith(s, p) ==
  Len(s) >= Len(p) /\ SubSeq(s, Len(s) - Len(p) + 1, Len(s)) = p

\* s[i:j] with 0-based, end-exclusive Python indices (0 <= i <= j).
Slice(s, i, j) ==
  LET hi == IF j < Len(s) THEN j ELSE Len(s)
  IN  IF i >= hi THEN <<>> ELSE SubSeq(s, i + 1, hi)

\* s.replace(old, ""): every non-overlapping occurrence, left to right.
RECURSIVE RemoveAll(_, _)
RemoveAll(s, old) ==
  IF s = <<>> THEN <<>>
  ELSE IF StartsWith(s, old)
       THEN RemoveAll(SubSeq(s, Len(old) + 1, Len(s)), old)
       ELSE <<Head(s)>> \o RemoveAll(Tail(s), old)

\* s.split(sep) for a one-character separator.
RECURSIVE Split(_, _)
Split(s, sep) ==
  LET hits == {i \in 1..Len(s) : s[i] = sep}
  IN  IF hits = {} THEN <<s>>
      ELSE <<SubSeq(s, 1, MinOf(hits) - 1)>>
             \o Split(SubSeq(s, MinOf(hits) + 1, Len(s)), sep)

\* str(n).zfill(w) for 0 <= n < 10^w.
Pad(n, w) == [i \in 1..w |-> DigitChars[((n \div (10 ^ (w - i))) % 10) + 1]]

RECURSIVE DigitsValue(_)
DigitsValue(s) ==
  IF s = <<>> THEN 0
  ELSE 10 * DigitsValue(SubSeq(s, 1, Len(s) - 1)) + DigitVal(s[Len(s)])

\* int(s) on ASCII text: surrounding blanks, one optional sign, then digits
\* with single underscores allowed between digits.  ok = FALSE is ValueError.
StripBlanks(s) ==
  LET keep == {i \in 1..Len(s) : s[i] # " "}
  IN  IF keep = {} THEN <<>>
      ELSE SubSeq(s, MinOf(keep), CHOOSE i \in keep : \A j \in keep : j <= i)

\* The decimal digits of the largest C int (2^31 - 1).
MaxCIntDigits == <<"2", "1", "4", "7", "4", "8", "3", "6", "4", "7">>

RECURSIVE StripZeros(_)
StripZeros(s) ==
  IF Len(s) > 1 /\ s[1] = "0" THEN StripZeros(Tail(s)) ELSE s

\* Whether the text after the sign is digits, with single underscores
\* allowed between digits.
WellFormedInt(body) ==
  /\ body # <<>>
  /\ \A i \in 1..Len(body) : IsDigit(body[i]) \/ body[i] = "_"
  /\ IsDigit(body[1]) /\ IsDigit(body[Len(body)])
  /\ \A i \in 1..(Len(body) - 1) : ~(body[i] = "_" /\ body[i + 1] = "_")

FitsCInt(digits) ==
  Len(digits) < 10 \/ (Len(digits) = 10 /\ StrLE(digits, MaxCIntDigits))

IntOfDigits(negative, digits) ==
  IF FitsCInt(digits)
  THEN [ok |-> TRUE, fits |-> TRUE,
        v |-> IF negative THEN 0 - DigitsValue(digits) ELSE DigitsValue(digits)]
  ELSE [ok |-> TRUE, fits |-> FALSE, v |-> 0]

IntOfBody(negative, body) ==
  IF WellFormedInt(body)
  THEN IntOfDigits(negative, StripZeros(SelectSeq(body, IsDigit)))
  ELSE [ok |-> FALSE, fits |-> TRUE, v |-> 0]

IntOfStripped(t) ==
  IntOfBody(t # <<>> /\ t[1] = "-",
            IF t # <<>> /\ t[1] \in {"+", "-"} THEN Tail(t) ELSE t)

\* int(s).  ok: int(s) succeeds; fits: the value fits a C int (datetime()
\* raises OverflowError otherwise); v: the value when it fits.
PyInt(s) == IntOfStripped(StripBlanks(s))

(***************************************************************************)
(* datetime                                                                *)
(***************************************************************************)

DaysInMonth(y, m) ==
  IF m = 2
  THEN (IF (y % 4 = 0 /\ y % 100 # 0) \/ y % 400 = 0 THEN 29 ELSE 28)
  ELSE IF m \in {4, 6, 9, 11} THEN 30 ELSE 31

\* The range check of datetime(y, mo, d, h, mi, s); FALSE is ValueError.
ValidDateTime(y, mo, d, h, mi, s) ==
  /\ y \in 1..9999 /\ mo \in 1..12
  /\ d >= 1 /\ d <= DaysInMonth(y, mo)
  /\ h \in 0..23 /\ mi \in 0..59 /\ s \in 0..59

DateTime(y, mo, d, h, mi, s, us) ==
  [year |-> y, month |-> mo, day |-> d,
   hour |-> h, minute |-> mi, second |-> s, microsecond |-> us]

\* datetime.isoformat()
IsoFormat(dt) ==
  Pad(dt.year, 4) \o <<"-">> \o Pad(dt.month, 2) \o <<"-">> \o Pad(dt.day, 2)
    \o <<"T">> \o Pad(dt.hour, 2) \o <<":">> \o Pad(dt.minute, 2)
    \o <<":">> \o Pad(dt.second, 2)
    \o (IF dt.microsecond # 0 THEN <<".">> \o Pad(dt.microsecond, 6) ELSE <<>>)

AllDigits(s) == s # <<>> /\ \A i \in 1..Len(s) : IsDigit(s[i])

\* The two shapes isoformat() produces.
IsoShape(s) ==
  /\ Len(s) \in {19, 26}
  /\ s[5] = "-" /\ s[8] = "-" /\ s[11] = "T" /\ s[14] = ":" /\ s[17] = ":"
  /\ AllDigits(SubSeq(s, 1, 4)) /\ AllDigits(SubSeq(s, 6, 7))
  /\ AllDigits(SubSeq(s, 9, 10)) /\ AllDigits(SubSeq(s, 12, 13))
  /\ AllDigits(SubSeq(s, 15, 16)) /\ AllDigits(SubSeq(s, 18, 19))
  /\ (Len(s) = 26 => s[20] = "." /\ AllDigits(SubSeq(s, 21, 26)))

NoDateTime == DateTime(1, 1, 1, 0, 0, 0, 0)

CheckedDateTime(y, mo, d, h, mi, s, us) ==
  IF ValidDateTime(y, mo, d, h, mi, s)
  THEN [ok |-> TRUE, dt |-> DateTime(y, mo, d, h, mi, s, us)]
  ELSE [ok |-> FALSE, dt |-> NoDateTime]

\* datetime.fromisoformat(s); ok = FALSE is ValueError.
FromIsoFormat(s) ==
  IF IsoShape(s)
  THEN CheckedDateTime(
         DigitsValue(SubSeq(s, 1, 4)), DigitsValue(SubSeq(s, 6, 7)),
         DigitsValue(SubSeq(s, 9, 10)), DigitsValue(SubSeq(s, 12, 13)),
         DigitsValue(SubSeq(s, 15, 16)), DigitsValue(SubSeq(s, 18, 19)),
         IF Len(s) = 26 THEN DigitsValue(SubSeq(s, 21, 26)) ELSE 0)
  ELSE [ok |-> FALSE, dt |-> NoDateTime]

(***************************************************************************)
(* extract_timestamp_from_filename                                         *)
(***************************************************************************)

YamlExt == <<".", "y", "a", "m", "l">>

NoTimestamp == [kind |-> "none", dt |-> NoDateTime]

\* Lines 59-65: datetime(year, month, day, hour, minute, second) on the
\* results of the six int() calls.
TimestampOfFields(year, month, day, hour, minute, second) ==
  IF ~(year.ok /\ month.ok /\ day.ok /\ hour.ok /\ minute.ok /\ second.ok)
  THEN NoTimestamp
  ELSE IF ~(year.fits /\ month.fits /\ day.fits)
  THEN [kind |-> "overflow", dt |-> NoDateTime]
  ELSE IF ValidDateTime(year.v, month.v, day.v, hour.v, minute.v, second.v)
  THEN [kind |-> "ok",
        dt |-> DateTime(year.v, month.v, day.v, hour.v, minute.v, second.v, 0)]
  ELSE NoTimestamp

\* Lines 48-57: the last four dash-separated parts are the date and the time.
TimestampOfParts(parts) ==
  IF Len(parts) < 5 THEN NoTimestamp
  ELSE TimestampOfFields(
         PyInt(parts[Len(parts) - 3]), PyInt(parts[Len(parts) - 2]),
         PyInt(parts[Len(parts) - 1]),
         PyInt(Slice(parts[Len(parts)], 0, 2)),
         PyInt(Slice(parts[Len(parts)], 2, 4)),
         PyInt(Slice(parts[Len(parts)], 4, 6)))

\* kind = "ok": the parsed datetime; "none": the function returned None;
\* "overflow": datetime() raised OverflowError, which the function's
\* except (ValueError, IndexError) clause does not catch.
extract_timestamp_from_filename(filename) ==
  TimestampOfParts(Split(RemoveAll(filename, YamlExt), "-"))

(***************************************************************************)
(* Python values read from a run file                                      *)
(***************************************************************************)

\* A mapping key as yaml.safe_load yields it: a str or an int.
StrKey(s) == [t |-> "str", s |-> s, i |-> 0]

IntKey(i) == [t |-> "int", s |-> "", i |-> i]

\* bool(key)
KeyTruthy(k) == IF k.t = "str" THEN k.s # "" ELSE k.i # 0

\* A scalar of a value series: a number or None.
Num(n) == [null |-> FALSE, n |-> n]

Null == [null |-> TRUE, n |-> 0]

\* A dict is the sequence of its (key, value) items in insertion order.
Item(k, v) == [k |-> k, v |-> v]

HasKey(d, k) == \E i \in 1..Len(d) : d[i].k = k

GetItem(d, k) == d[CHOOSE i \in 1..Len(d) : d[i].k = k].v

\* A value that is either a dict or None.
NoneDict == [isNone |-> TRUE, items |-> <<>>]

SomeDict(items) == [isNone |-> FALSE, items |-> items]

\* A value series data[objective]: None ([isNone |-> TRUE]), or a mapping
\* from stringified index to scalar (a function whose domain is its keys).
Series(m) == [isNone |-> FALSE, m |-> m]

\* dict.get(key, default) on a mapping with string keys.
Get(d, key, default) == IF key \in DOMAIN d THEN d[key] ELSE default

(***************************************************************************)
(* Paths                                                                   *)
(***************************************************************************)

\* Path(s).parts for a relative path: the segments between "/" separators,
\* empty and "." segments dropped.
PathParts(s) ==
  SelectSeq(Split(s, "/"), LAMBDA seg : seg # <<>> /\ seg # <<".">>)

\* str(Path) of a relative path: the segments joined by "/".
RECURSIVE JoinPath(_)
JoinPath(parts) ==
  IF parts = <<>> THEN <<>>
  ELSE IF Len(parts) = 1 THEN parts[1]
  ELSE parts[1] \o <<"/">> \o JoinPath(Tail(parts))

\* Path(s).name
PathName(s) ==
  LET parts == PathParts(s) IN IF parts = <<>> THEN <<>> ELSE parts[Len(parts)]

(***************************************************************************)
(* The archive: candidate run files and their contents                     *)
(***************************************************************************)

\* Directory names: beamlines (lcls_ii is a beamline no run of the archive
\* belongs to), a year directory and a hidden directory.
Seg ==
  [cu_hxr  |-> <<"c", "u", "_", "h", "x", "r">>,
   cu_sxr  |-> <<"c", "u", "_", "s", "x", "r">>,
   dev     |-> <<"d", "e", "v">>,
   lcls_ii |-> <<"l", "c", "l", "s", "_", "i", "i">>,
   year    |-> <<"2", "0", "2", "5">>,
   hidden  |-> <<".", "i", "p", "y", "n", "b">>]

\* File names: {env}-YYYY-MM-DD-HHMMSS.yaml, one without a timestamp and one
\* that is not a *.yaml name.
FileName ==
  [lcls   |-> <<"l", "c", "l", "s", "-", "2", "0", "2", "5", "-", "1", "0", "-",
                "1", "0", "-", "1", "5", "4", "3", "4", "3", ".", "y", "a", "m", "l">>,
   sphere |-> <<"s", "p", "h", "e", "r", "e", "-", "2", "0", "2", "5", "-", "0",
                "8", "-", "1", "3", "-", "1", "1", "3", "0", "2", "5", ".", "y", "a",
                "m", "l">>,
   readme |-> <<"r", "e", "a", "d", "m", "e", ".", "y", "a", "m", "l">>,
   notes  |-> <<"n", "o", "t", "e", "s", ".", "t", "x", "t">>]

\* Files by their path relative to the root.  A and B carry the same time
\* in different beamlines; D carries none; H lies in a hidden directory.
\* The walk has no business with the others: S lies directly in the root,
\* N is not a *.yaml file, P is a hidden file, Q lies in a hidden top-level
\* directory.
Run ==
  [A |-> JoinPath(<<Seg.cu_hxr, Seg.year, FileName.lcls>>),
   B |-> JoinPath(<<Seg.cu_sxr, FileName.lcls>>),
   C |-> JoinPath(<<Seg.cu_hxr, FileName.sphere>>),
   D |-> JoinPath(<<Seg.dev, FileName.readme>>),
   H |-> JoinPath(<<Seg.cu_hxr, Seg.hidden, FileName.lcls>>),
   S |-> FileName.sphere,
   N |-> JoinPath(<<Seg.cu_hxr, FileName.notes>>),
   P |-> JoinPath(<<Seg.dev, <<".">> \o FileName.lcls>>),
   Q |-> JoinPath(<<Seg.hidden, FileName.lcls>>)]

RunPaths == {Run.A, Run.B, Run.C, Run.D, Run.H, Run.S, Run.N, Run.P, Run.Q}

\* Modification times, as datetime.fromtimestamp(st_mtime) reports them.
Mtime ==
  [early |-> DateTime(2025, 8, 13, 11, 30, 25, 0),
   late  |-> DateTime(2025, 10, 10, 15, 43, 43, 500)]

\* Documents with objectives and evaluation data.  U: two objectives with
\* series of equal length, one of them all null.  R: the second series is
\* longer than the first.  G: a series with index 1 missing.  N: the column
\* of the only objective is null.  M: the column of the second objective
\* is null.  V: data without objectives.  Z: an objective whose series is
\* empty.  K: the first objective has no column, the second has one.
EvaluationDocs ==
  ("U" :> [name |-> "run_u",
           vocs |-> [variables |-> <<Item(StrKey("y"), <<0, 1>>),
                                     Item(StrKey("x"), <<0, 1>>)>>,
                     objectives |-> <<Item(StrKey("f"), "MINIMIZE"),
                                      Item(StrKey("g"), "MAXIMIZE")>>],
           data |-> <<Item(StrKey("f"),
                           Series(("0" :> Num(5)) @@ ("1" :> Null) @@ ("2" :> Num(3)))),
                      Item(StrKey("g"),
                           Series(("0" :> Null) @@ ("1" :> Null) @@ ("2" :> Null)))>>])
  @@ ("R" :> [name |-> "run_r",
              vocs |-> [objectives |-> <<Item(StrKey("f"), "MINIMIZE"),
                                         Item(StrKey("g"), "MAXIMIZE")>>],
              data |-> <<Item(StrKey("f"),
                              Series(("0" :> Num(5)) @@ ("1" :> Num(3)))),
                         Item(StrKey("g"),
                              Series(("0" :> Num(1)) @@ ("1" :> Num(2))
                                       @@ ("2" :> Num(7))))>>])
  @@ ("G" :> [name |-> "run_g",
              vocs |-> [objectives |-> <<Item(StrKey("f"), "MINIMIZE")>>],
              data |-> <<Item(StrKey("f"),
                              Series(("0" :> Num(5)) @@ ("2" :> Num(3))))>>])
  @@ ("N" :> [name |-> "run_n",
              vocs |-> [objectives |-> <<Item(StrKey("f"), "MINIMIZE")>>],
              data |-> <<Item(StrKey("f"), [isNone |-> TRUE, m |-> <<>>])>>])
  @@ ("M" :> [name |-> "run_m",
              vocs |-> [objectives |-> <<Item(StrKey("f"), "MINIMIZE"),
                                         Item(StrKey("g"), "MAXIMIZE")>>],
              data |-> <<Item(StrKey("f"), Series(("0" :> Num(1)))),
                         Item(StrKey("g"), [isNone |-> TRUE, m |-> <<>>])>>])
  @@ ("V" :> [name |-> "run_v",
              data |-> <<Item(StrKey("x"), Series(("0" :> Num(1))))>>])
  @@ ("Z" :> [name |-> "run_z",
              vocs |-> [objectives |-> <<Item(StrKey("f"), "MINIMIZE")>>],
              data |-> <<Item(StrKey("f"), Series(<<>>))>>])
  @@ ("K" :> [name |-> "run_k",
              vocs |-> [objectives |-> <<Item(StrKey("g"), "MAXIMIZE"),
                                         Item(StrKey("f"), "MINIMIZE")>>],
              data |-> <<Item(StrKey("f"),
                              Series(("0" :> Num(4)) @@ ("1" :> Num(9))))>>])

\* yaml.safe_load(f) of each document the model places in the archive.
\* kind "error": yaml.YAMLError; kind "map": a mapping with the given keys.
\* The tags of T are a YAML date (tags: 2025-10-10), a datetime.date; B
\* has a beamline key of its own.
Yaml(doc) ==
  CASE doc = "A" ->
         [kind |-> "map",
          m |-> [name |-> "run_a",
                 environment |-> [name |-> "lcls"],
                 generator |-> [name |-> "neldermead"],
                 description |-> "scan",
                 tags |-> [t |-> "list", v |-> <<"night">>],
                 vocs |-> [variables |-> <<Item(StrKey("b"), <<1, 2>>),
                                           Item(StrKey("a"), <<3, 4>>)>>,
                           objectives |-> <<Item(StrKey("f"), "MINIMIZE")>>,
                           constraints |-> <<Item(StrKey("c"), <<"LESS_THAN", "5">>)>>],
                 data |-> <<Item(StrKey("f"),
                                 Series(("0" :> Num(5)) @@ ("1" :> Null)
                                          @@ ("2" :> Num(3))))>>]]
    [] doc = "B" ->
         [kind |-> "map",
          m |-> [name |-> "run_b",
                 beamline |-> Seg.lcls_ii,
                 environment |-> [name |-> "lcls"],
                 generator |-> [name |-> "mobo"],
                 vocs |-> [variables |-> <<Item(StrKey("a"), <<0, 1>>)>>,
                           objectives |-> <<Item(IntKey(1), "MAXIMIZE"),
                                            Item(StrKey("f"), "MAXIMIZE")>>]]]
    [] doc = "C" ->
         [kind |-> "map",
          m |-> [generator |-> [name |-> "neldermead"]]]
    [] doc = "T" ->
         [kind |-> "map",
          m |-> [generator |-> [name |-> "neldermead"],
                 tags |-> [t |-> "date"]]]
    [] doc \in DOMAIN EvaluationDocs ->
         [kind |-> "map", m |-> EvaluationDocs[doc]]
    [] OTHER -> [kind |-> "error"]

(***************************************************************************)
(* load_run_metadata: the file branch                                      *)
(***************************************************************************)

NoMetadata == [absent |-> TRUE]

Raise(err) == [status |-> err, md |-> NoMetadata]

\* The canonical key of the file a relative path names.
FileKey(run_path) == JoinPath(PathParts(run_path))

FileExists(fs, run_path) ==
  FileKey(run_path) \in DOMAIN fs /\ fs[FileKey(run_path)].exists

\* The path names the root or a directory on the way to an existing file.
IsDirectory(fs, run_path) ==
  LET parts == PathParts(run_path)
  IN  \E f \in DOMAIN fs :
        /\ fs[f].exists
        /\ Len(PathParts(f)) > Len(parts)
        /\ SubSeq(PathParts(f), 1, Len(parts)) = parts

\* A variant that lists the entries in the reverse of the mapping's order.
SingleEntryDictsReversed(mapping) ==
  [i \in 1..Len(mapping) |-> <<mapping[Len(mapping) + 1 - i]>>]

\* [{name: value} for name, value in mapping.items()]
SingleEntryDicts(mapping) == [i \in 1..Len(mapping) |-> <<mapping[i]>>]

\* len(data[key]); ok = FALSE is the TypeError of len(None).
SeriesLen(data, key) ==
  LET series == GetItem(data, key)
  IN  IF series.isNone THEN [ok |-> FALSE, n |-> 0]
      ELSE [ok |-> TRUE, n |-> Cardinality(DOMAIN series.m)]

\* metadata['num_evaluations'] when the data section is non-empty.
NumEvaluations(objectives, data) ==
  LET objective_name == objectives[1][1].k
      first_key      == data[1].k
  IN  IF objectives # <<>> /\ KeyTruthy(objective_name) /\ HasKey(data, objective_name)
      THEN SeriesLen(data, objective_name)
      ELSE IF KeyTruthy(first_key) THEN SeriesLen(data, first_key)
      ELSE [ok |-> TRUE, n |-> 0]

\* [obj_data[str(i)] for i in range(num_evaluations) if str(i) in obj_data]
SeriesValues(obj_data, num_evaluations) ==
  LET present == SelectSeq([i \in 1..num_evaluations |-> i - 1],
                           LAMBDA i : ToString(i) \in DOMAIN obj_data)
  IN  [j \in 1..Len(present) |-> obj_data[ToString(present[j])]]

MinNum(values) ==
  LET ns == {values[i].n : i \in {j \in 1..Len(values) : ~values[j].null}}
  IN  IF ns = {} THEN Null ELSE Num(CHOOSE x \in ns : \A y \in ns : x <= y)

MaxNum(values) ==
  LET ns == {values[i].n : i \in {j \in 1..Len(values) : ~values[j].null}}
  IN  IF ns = {} THEN Null ELSE Num(CHOOSE x \in ns : \A y \in ns : y <= x)

\* Lines 468-498: one map per statistic over the objectives that have values.
StatsDicts(kept, data, num_evaluations) ==
  [initial_values |->
     SomeDict([i \in 1..Len(kept) |->
        Item(kept[i], SeriesValues(GetItem(data, kept[i]).m, num_evaluations)[1])]),
   min_values |->
     SomeDict([i \in 1..Len(kept) |->
        Item(kept[i], MinNum(SeriesValues(GetItem(data, kept[i]).m, num_evaluations)))]),
   max_values |->
     SomeDict([i \in 1..Len(kept) |->
        Item(kept[i], MaxNum(SeriesValues(GetItem(data, kept[i]).m, num_evaluations)))]),
   final_values |->
     SomeDict([i \in 1..Len(kept) |->
        Item(kept[i],
             SeriesValues(GetItem(data, kept[i]).m, num_evaluations)[
               Len(SeriesValues(GetItem(data, kept[i]).m, num_evaluations))])])]

\* with_data: the objectives that have a data column.  A column that is
\* None makes the extraction raise, and the four maps are None.
StatsOfColumns(with_data, data, num_evaluations) ==
  IF \E i \in 1..Len(with_data) : GetItem(data, with_data[i]).isNone
  THEN [initial_values |-> NoneDict, min_values |-> NoneDict,
        max_values |-> NoneDict, final_values |-> NoneDict]
  ELSE StatsDicts(
         SelectSeq(with_data,
                   LAMBDA obj : SeriesValues(GetItem(data, obj).m, num_evaluations) # <<>>),
         data, num_evaluations)

\* Lines 460-502: the four per-objective maps.
ObjectiveStats(objectives, data, num_evaluations) ==
  StatsOfColumns(
    SelectSeq([i \in 1..Len(objectives) |-> objectives[i][1].k],
              LAMBDA obj : HasKey(data, obj)),
    data, num_evaluations)

\* Lines 458-502: the evaluation count, and the statistics when there are
\* objectives and evaluations.
WithNumEvaluations(head, objectives, data, num) ==
  IF ~num.ok THEN Raise("TypeError")
  ELSE IF objectives # <<>> /\ num.n > 0
  THEN [status |-> "ok",
        md |-> head @@ [num_evaluations |-> num.n]
                    @@ ObjectiveStats(objectives, data, num.n)]
  ELSE [status |-> "ok", md |-> head @@ [num_evaluations |-> num.n]]

\* Lines 446-507: the data section.
WithDataStats(head, objectives, data) ==
  IF data = <<>>
  THEN [status |-> "ok",
        md |-> head @@ [num_evaluations |-> 0,
                        initial_values |-> NoneDict, min_values |-> NoneDict,
                        max_values |-> NoneDict, final_values |-> NoneDict]]
  ELSE WithNumEvaluations(head, objectives, data, NumEvaluations(objectives, data))

\* A variant that prefers a beamline key of the document to the directory.
ExtractMetadataByContent(m, run_path, timestamp) ==
  WithDataStats(
    [name |-> Get(m, "name", "Unknown"),
     badger_environment |-> Get(Get(m, "environment", <<>>), "name", "Unknown"),
     algorithm |-> Get(Get(m, "generator", <<>>), "name", "Unknown"),
     description |-> Get(m, "description", ""),
     tags |-> Get(m, "tags", [t |-> "none"]),
     beamline |-> Get(m, "beamline", PathParts(run_path)[1]),
     timestamp |-> timestamp,
     variables |-> SingleEntryDicts(Get(Get(m, "vocs", <<>>), "variables", <<>>)),
     objectives |-> SingleEntryDicts(Get(Get(m, "vocs", <<>>), "objectives", <<>>)),
     constraints |-> SingleEntryDicts(Get(Get(m, "vocs", <<>>), "constraints", <<>>))],
    SingleEntryDicts(Get(Get(m, "vocs", <<>>), "objectives", <<>>)),
    Get(m, "data", <<>>))

\* Lines 407-444: the fields read from the document, the path and the time.
ExtractMetadata(m, run_path, timestamp) ==
  WithDataStats(
    [name |-> Get(m, "name", "Unknown"),
     badger_environment |-> Get(Get(m, "environment", <<>>), "name", "Unknown"),
     algorithm |-> Get(Get(m, "generator", <<>>), "name", "Unknown"),
     description |-> Get(m, "description", ""),
     tags |-> Get(m, "tags", [t |-> "none"]),
     beamline |-> IF run_path # <<>> THEN PathParts(run_path)[1]
                  ELSE <<"U", "n", "k", "n", "o", "w", "n">>,
     timestamp |-> timestamp,
     variables |-> SingleEntryDicts(Get(Get(m, "vocs", <<>>), "variables", <<>>)),
     objectives |-> SingleEntryDicts(Get(Get(m, "vocs", <<>>), "objectives", <<>>)),
     constraints |-> SingleEntryDicts(Get(Get(m, "vocs", <<>>), "constraints", <<>>))],
    SingleEntryDicts(Get(Get(m, "vocs", <<>>), "objectives", <<>>)),
    Get(m, "data", <<>>))

\* Lines 404-430: the parsed document and the time the file name carries.
ParseRunFile(run_path, file, run_data, file_timestamp) ==
  IF run_data.kind = "error" THEN Raise("YAMLError")
  ELSE IF run_data.kind # "map" THEN Raise("AttributeError")
  ELSE IF file_timestamp.kind = "overflow" THEN Raise("OverflowError")
  ELSE ExtractMetadata(run_data.m, run_path,
                       IF file_timestamp.kind = "ok" THEN file_timestamp.dt
                       ELSE file.mtime)

\* Lines 398-507: parse the run file and extract its metadata.
LoadFromFile(fs, run_path) ==
  IF ~FileExists(fs, run_path) /\ ~IsDirectory(fs, run_path)
  THEN Raise("FileNotFoundError")
  ELSE IF ~FileExists(fs, run_path) THEN Raise("IsADirectoryError")
  ELSE ParseRunFile(run_path, fs[FileKey(run_path)],
                    Yaml(fs[FileKey(run_path)].doc),
                    extract_timestamp_from_filename(PathName(run_path)))

(***************************************************************************)
(* _build_index                                                            *)
(***************************************************************************)

\* metadata.get(key): None when the key is absent.
GetOrNone(md, key) == IF key \in DOMAIN md THEN md[key] ELSE NoneDict

\* Lines 223-240: the serializable record of one run.
SerializableMetadata(rel_path, metadata) ==
  [run_filename |-> rel_path,
   timestamp |-> IsoFormat(metadata.timestamp),
   run_name |-> metadata.name,
   beamline |-> metadata.beamline,
   badger_environment |-> metadata.badger_environment,
   algorithm |-> metadata.algorithm,
   variables |-> metadata.variables,
   objectives |-> metadata.objectives,
   constraints |-> metadata.constraints,
   num_evaluations |-> metadata.num_evaluations,
   initial_objective_values |-> GetOrNone(metadata, "initial_values"),
   min_objective_values |-> GetOrNone(metadata, "min_values"),
   max_objective_values |-> GetOrNone(metadata, "max_values"),
   final_objective_values |-> GetOrNone(metadata, "final_values"),
   description |-> metadata.description,
   tags |-> metadata.tags]

IsHidden(name) == StartsWith(name, <<".">>)

\* A variant that collects every *.yaml file below a top-level directory,
\* hidden or not.
CollectedWithHidden(rel_path) ==
  /\ Len(PathParts(rel_path)) >= 2
  /\ EndsWith(rel_path, YamlExt)

\* Lines 198-206: a file is collected when its top-level directory and every
\* directory below it are visible and its name is a visible *.yaml name.
\* A file directly under the root is not inside a beamline directory.
Collected(rel_path) ==
  LET parts == PathParts(rel_path)
  IN  /\ Len(parts) >= 2
      /\ \A i \in 1..(Len(parts) - 1) : ~IsHidden(parts[i])
      /\ EndsWith(parts[Len(parts)], YamlExt)
      /\ ~IsHidden(parts[Len(parts)])

VisibleFiles(fs) == {f \in DOMAIN fs : fs[f].exists /\ Collected(f)}

DirOf(rel_path) ==
  LET parts == PathParts(rel_path) IN SubSeq(parts, 1, Len(parts) - 1)

IsPrefix(p, q) == Len(p) <= Len(q) /\ SubSeq(q, 1, Len(p)) = p

\* The orders in which iterdir() and a top-down os.walk() can yield the
\* files: the listing order of a directory is arbitrary, but the files of a
\* directory come before those of its subdirectories and every subtree is
\* walked as a whole.
WalkOrders(fs) ==
  LET S == VisibleFiles(fs)
      n == Cardinality(S)
  IN  {seq \in [1..n -> S] :
         /\ \A i, j \in 1..n : i # j => seq[i] # seq[j]
         /\ \A i, j \in 1..n :
              (DirOf(seq[i]) # DirOf(seq[j]) /\ IsPrefix(DirOf(seq[i]), DirOf(seq[j])))
                => i < j
         /\ \A i, j, k \in 1..n :
              (i < j /\ j < k) =>
                \A d \in 1..Len(DirOf(seq[i])) :
                  (IsPrefix(SubSeq(DirOf(seq[i]), 1, d), DirOf(seq[k]))
                     => IsPrefix(SubSeq(DirOf(seq[i]), 1, d), DirOf(seq[j])))}

\* Where a stable descending sort puts r among the records sorted so far,
\* all of which came before it: after every record whose key is >= its own.
InsertRun(rest, r) ==
  SubSeq(rest, 1,
         Cardinality({i \in 1..Len(rest) : StrLE(r.timestamp, rest[i].timestamp)}))
    \o <<r>>
    \o SubSeq(rest,
              Cardinality({i \in 1..Len(rest) : StrLE(r.timestamp, rest[i].timestamp)}) + 1,
              Len(rest))

\* A variant that leaves the records in walk order.
WalkOrder(runs) == runs

\* list.sort(key=timestamp, reverse=True): a stable sort, descending by the
\* ISO string; records with equal keys keep their relative order.
RECURSIVE SortNewestFirst(_)
SortNewestFirst(runs) ==
  IF runs = <<>> THEN <<>>
  ELSE InsertRun(SortNewestFirst(SubSeq(runs, 1, Len(runs) - 1)), runs[Len(runs)])

\* Lines 216-246: the record of a file whose metadata load succeeded; a file
\* whose load raised is skipped.
RecordOrSkip(rel_path, loaded) ==
  IF loaded.status = "ok"
  THEN <<SerializableMetadata(rel_path, loaded.md)>>
  ELSE <<>>

\* A variant in which the first file that fails to load ends the loop.
RECURSIVE IndexedRunsUntilFailure(_, _)
IndexedRunsUntilFailure(fs, all_files) ==
  IF all_files = <<>> \/ LoadFromFile(fs, Head(all_files)).status # "ok"
  THEN <<>>
  ELSE RecordOrSkip(Head(all_files), LoadFromFile(fs, Head(all_files)))
         \o IndexedRunsUntilFailure(fs, Tail(all_files))

\* The records of the files in walk order.
RECURSIVE IndexedRuns(_, _)
IndexedRuns(fs, all_files) ==
  IF all_files = <<>> THEN <<>>
  ELSE RecordOrSkip(Head(all_files), LoadFromFile(fs, Head(all_files)))
         \o IndexedRuns(fs, Tail(all_files))

\* A variant that also reports every file to the callback.
BuildEventsPerFile(all_files, progress_callback) ==
  <<[e |-> "walk", path |-> <<>>, current |-> 0, total |-> Len(all_files)]>>
    \o (IF progress_callback
        THEN <<[e |-> "start", path |-> <<>>, current |-> 0, total |-> Len(all_files)]>>
        ELSE <<>>)
    \o [i \in 1..(2 * Len(all_files)) |->
          [e |-> IF i % 2 = 1 THEN "load" ELSE "progress",
           path |-> all_files[(i + 1) \div 2], current |-> (i + 1) \div 2,
           total |-> Len(all_files)]]
    \o (IF progress_callback
        THEN <<[e |-> "complete", path |-> <<>>,
                current |-> Len(all_files), total |-> Len(all_files)]>>
        ELSE <<>>)
    \o <<[e |-> "total_runs", path |-> <<>>, current |-> 0, total |-> Len(all_files)],
         [e |-> "sort", path |-> <<>>, current |-> 0, total |-> Len(all_files)]>>

\* What happens during a rebuild, in program order: the collection of the
\* files (lines 196-208), the "start" callback (212-213), the load of each
\* file (216-246), the "complete" callback (249-250), the assignment of
\* total_runs (252) and the sort (255).
BuildEvents(all_files, progress_callback) ==
  <<[e |-> "walk", path |-> <<>>, current |-> 0, total |-> Len(all_files)]>>
    \o (IF progress_callback
        THEN <<[e |-> "start", path |-> <<>>, current |-> 0, total |-> Len(all_files)]>>
        ELSE <<>>)
    \o [i \in 1..Len(all_files) |->
          [e |-> "load", path |-> all_files[i], current |-> i, total |-> Len(all_files)]]
    \o (IF progress_callback
        THEN <<[e |-> "complete", path |-> <<>>,
                current |-> Len(all_files), total |-> Len(all_files)]>>
        ELSE <<>>)
    \o <<[e |-> "total_runs", path |-> <<>>, current |-> 0, total |-> Len(all_files)],
         [e |-> "sort", path |-> <<>>, current |-> 0, total |-> Len(all_files)]>>

\* Lines 252-258: the index document over the collected records.
IndexOf(runs, created_at) ==
  [version |-> "1.0",
   created_at |-> created_at,
   runs |-> SortNewestFirst(runs),
   total_runs |-> Len(runs)]

\* _build_index for one walk order; created_at is the time of the build.
BuildIndex(fs, all_files, created_at) ==
  IndexOf(IndexedRuns(fs, all_files), created_at)

(***************************************************************************)
(* _save_cache / _load_cache                                               *)
(***************************************************************************)

\* json.dump writes every dict key as a string; str and list values are
\* written as they are.
JsonKey(k) == IF k.t = "int" THEN StrKey(ToString(k.i)) ELSE k

JsonDict(d) == [i \in 1..Len(d) |-> Item(JsonKey(d[i].k), d[i].v)]

JsonDictList(l) == [i \in 1..Len(l) |-> JsonDict(l[i])]

JsonOptDict(o) == IF o.isNone THEN o ELSE SomeDict(JsonDict(o.items))

JsonRun(r) ==
  [r EXCEPT !.variables = JsonDictList(@),
            !.objectives = JsonDictList(@),
            !.constraints = JsonDictList(@),
            !.initial_objective_values = JsonOptDict(@),
            !.min_objective_values = JsonOptDict(@),
            !.max_objective_values = JsonOptDict(@),
            !.final_objective_values = JsonOptDict(@)]

\* json.load(json.dump(index))
JsonRoundTrip(index) ==
  [index EXCEPT !.runs = [i \in 1..Len(index.runs) |-> JsonRun(index.runs[i])]]

\* json.dump raises TypeError on a value that is not a JSON type (a YAML
\* date, for one).
JsonSerializable(index) ==
  \A i \in 1..Len(index.runs) : index.runs[i].tags.t # "date"

NoCacheFile == [kind |-> "absent"]

\* A cache file that was cut short, by a save that raised or a writer that
\* was killed: json.load raises on it.
TruncatedCache == [kind |-> "partial"]

\* A directory stands where the cache file would be: open() raises
\* IsADirectoryError for reading as for writing.
CacheIsDirectory == [kind |-> "directory"]

\* The content of .otter_index.json after _save_cache(index): the document,
\* or what was written before json.dump raised.
SavedCache(index) ==
  IF JsonSerializable(index)
  THEN [kind |-> "json", index |-> JsonRoundTrip(index)]
  ELSE TruncatedCache

\* A variant that writes the cache only where there is none.
SaveCacheIfAbsent(cache_file, index) ==
  IF cache_file.kind = "absent" THEN SavedCache(index) ELSE cache_file

\* _save_cache: open(cache_path, 'w') and json.dump; every exception is
\* logged and swallowed, so a path that cannot be opened stays as it is.
SaveCache(cache_file, index) ==
  IF cache_file.kind = "directory" THEN cache_file ELSE SavedCache(index)

NoIndex == [absent |-> TRUE]

\* A variant that never finds a usable cache.
CacheNeverLoads(cache_file) == [isNone |-> TRUE, index |-> NoIndex]

\* A variant that takes whatever stands at the cache path for an index
\* without runs.
LoadCacheUnchecked(cache_file) ==
  IF cache_file.kind = "json"
  THEN [isNone |-> FALSE, index |-> cache_file.index]
  ELSE IF cache_file.kind = "absent"
  THEN [isNone |-> TRUE, index |-> NoIndex]
  ELSE [isNone |-> FALSE,
        index |-> [version |-> "1.0", created_at |-> 0, runs |-> <<>>,
                   total_runs |-> 0]]

\* _load_cache: the parsed document, or None when the file is missing,
\* cannot be opened or does not parse.
LoadCache(cache_file) ==
  IF cache_file.kind = "json"
  THEN [isNone |-> FALSE, index |-> cache_file.index]
  ELSE [isNone |-> TRUE, index |-> NoIndex]

(***************************************************************************)
(* list_runs                                                               *)
(***************************************************************************)

\* Optional[...] arguments: None, or a value.
None == [some |-> FALSE]

Some(v) == [some |-> TRUE, v |-> v]

\* bool(x) of an optional text argument: None and "" are both false.
\* (Text is either a string or a sequence of characters.)
TruthyStr(o) == o.some /\ o.v # ""

TruthySeq(o) == o.some /\ o.v # <<>>

\* time_range: None, or a dict whose 'start' and 'end' may be missing.
NoRange == [isNone |-> TRUE, start |-> None, end |-> None]

Range(start, end) == [isNone |-> FALSE, start |-> start, end |-> end]

\* Lines 299-307.
InTimeRange(r, time_range) ==
  /\ (~TruthySeq(time_range.start) \/ StrLE(time_range.start.v, r.timestamp))
  /\ (~TruthySeq(time_range.end) \/ StrLE(r.timestamp, time_range.end.v))

FilterTimeRange(runs, time_range) ==
  IF ~time_range.isNone /\ (time_range.start.some \/ time_range.end.some)
  THEN SelectSeq(runs, LAMBDA r : InTimeRange(r, time_range))
  ELSE runs

\* A variant that falls back to every record when the beamline matches none.
FilterBeamlineOrAll(runs, beamline) ==
  IF TruthySeq(beamline) /\ \E i \in 1..Len(runs) : runs[i].beamline = beamline.v
  THEN SelectSeq(runs, LAMBDA r : r.beamline = beamline.v)
  ELSE runs

\* Lines 310-311.
FilterBeamline(runs, beamline) ==
  IF TruthySeq(beamline)
  THEN SelectSeq(runs, LAMBDA r : r.beamline = beamline.v)
  ELSE runs

\* Lines 314-315.
FilterAlgorithm(runs, algorithm) ==
  IF TruthyStr(algorithm)
  THEN SelectSeq(runs, LAMBDA r : r.algorithm = algorithm.v)
  ELSE runs

\* Lines 318-319.
FilterEnvironment(runs, badger_environment) ==
  IF TruthyStr(badger_environment)
  THEN SelectSeq(runs, LAMBDA r : r.badger_environment = badger_environment.v)
  ELSE runs

\* Lines 322-326: any(objective in obj_dict for obj_dict in r["objectives"])
HasObjective(r, objective) ==
  \E i \in 1..Len(r.objectives) : HasKey(r.objectives[i], StrKey(objective))

FilterObjective(runs, objective) ==
  IF TruthyStr(objective)
  THEN SelectSeq(runs, LAMBDA r : HasObjective(r, objective.v))
  ELSE runs

Reversed(seq) == [i \in 1..Len(seq) |-> seq[Len(seq) + 1 - i]]

\* A variant that ignores sort_order.
KeepIndexOrder(runs, sort_order) == runs

\* Lines 329-331.
ApplySortOrder(runs, sort_order) ==
  IF sort_order = "oldest_first" THEN Reversed(runs) ELSE runs

\* seq[:n] for any integer n.
SlicePrefix(seq, n) ==
  LET stop == IF n >= 0 THEN (IF n < Len(seq) THEN n ELSE Len(seq))
              ELSE (IF Len(seq) + n > 0 THEN Len(seq) + n ELSE 0)
  IN  SubSeq(seq, 1, stop)

\* Lines 335-336.
ApplyLimit(runs, limit) ==
  IF limit.some THEN SlicePrefix(runs, limit.v) ELSE runs

\* A variant that keeps a record as soon as one supplied filter accepts it.
MatchingAnyFilter(index, q) ==
  SelectSeq(index.runs, LAMBDA r :
    \/ /\ q.time_range.isNone \/ ~(q.time_range.start.some \/ q.time_range.end.some)
       /\ ~TruthySeq(q.beamline) /\ ~TruthyStr(q.algorithm)
       /\ ~TruthyStr(q.badger_environment) /\ ~TruthyStr(q.objective)
    \/ /\ ~q.time_range.isNone /\ (q.time_range.start.some \/ q.time_range.end.some)
       /\ InTimeRange(r, q.time_range)
    \/ TruthySeq(q.beamline) /\ r.beamline = q.beamline.v
    \/ TruthyStr(q.algorithm) /\ r.algorithm = q.algorithm.v
    \/ TruthyStr(q.badger_environment) /\ r.badger_environment = q.badger_environment.v
    \/ TruthyStr(q.objective) /\ HasObjective(r, q.objective.v))

\* Lines 296-326: the filters, applied one after the other.
MatchingRuns(index, q) ==
  FilterObjective(
    FilterEnvironment(
      FilterAlgorithm(
        FilterBeamline(
          FilterTimeRange(index.runs, q.time_range),
          q.beamline),
        q.algorithm),
      q.badger_environment),
    q.objective)

\* Line 339: [r["run_filename"] for r in matching_runs]
RunFilenames(runs) == [i \in 1..Len(runs) |-> runs[i].run_filename]

\* A variant that cuts the list to the limit before it applies sort_order.
LimitBeforeSort(index, q) ==
  RunFilenames(ApplySortOrder(ApplyLimit(MatchingRuns(index, q), q.limit),
                              q.sort_order))

\* list_runs on a loaded index: the paths of the matching records.
list_runs(index, q) ==
  RunFilenames(ApplyLimit(ApplySortOrder(MatchingRuns(index, q), q.sort_order),
                          q.limit))

\* get_most_recent_run: list_runs(limit=1, ...) and its first element.
MostRecentQuery(f) ==
  [time_range |-> NoRange, limit |-> Some(1), beamline |-> f.beamline,
   algorithm |-> f.algorithm, badger_environment |-> f.badger_environment,
   objective |-> f.objective, sort_order |-> "newest_first"]

FirstOrNone(runs) == IF runs # <<>> THEN Some(runs[1]) ELSE None

\* A variant that asks for the oldest matching run.
get_oldest_run(index, f) ==
  FirstOrNone(list_runs(index, [MostRecentQuery(f) EXCEPT !.sort_order = "oldest_first"]))

get_most_recent_run(index, f) == FirstOrNone(list_runs(index, MostRecentQuery(f)))

(***************************************************************************)
(* load_run_metadata                                                       *)
(***************************************************************************)

\* Lines 380-396: the record the index holds, in the caller's format.
MetadataFromIndex(run) ==
  [name |-> run.run_name,
   timestamp |-> FromIsoFormat(run.timestamp).dt,
   beamline |-> run.beamline,
   badger_environment |-> run.badger_environment,
   algorithm |-> run.algorithm,
   variables |-> run.variables,
   objectives |-> run.objectives,
   constraints |-> run.constraints,
   num_evaluations |-> run.num_evaluations,
   initial_values |-> run.initial_objective_values,
   min_values |-> run.min_objective_values,
   max_values |-> run.max_objective_values,
   final_values |-> run.final_objective_values,
   description |-> run.description,
   tags |-> run.tags]

InIndex(index, run_path) ==
  \E i \in 1..Len(index.runs) : index.runs[i].run_filename = run_path

\* The first record of the index with this run_filename.
IndexedRun(index, run_path) ==
  index.runs[MinOf({i \in 1..Len(index.runs) : index.runs[i].run_filename = run_path})]

\* Lines 376-396: the indexed record is returned without opening any file.
LoadFromIndex(run) ==
  IF FromIsoFormat(run.timestamp).ok
  THEN [status |-> "ok", md |-> MetadataFromIndex(run), reads |-> {}]
  ELSE [status |-> "ValueError", md |-> NoMetadata, reads |-> {}]

\* Lines 398-507: the outcome of the file branch; reads is the set of run
\* files the call opened.
FileOutcome(loaded, opened) ==
  [status |-> loaded.status, md |-> loaded.md, reads |-> opened]

\* A variant without the file branch: a path the index lacks is not found.
LoadFromIndexOnly(index, fs, run_path) ==
  IF InIndex(index, run_path)
  THEN LoadFromIndex(IndexedRun(index, run_path))
  ELSE [status |-> "FileNotFoundError", md |-> NoMetadata, reads |-> {}]

\* A variant that prefers the file to the index whenever the file exists.
LoadFileFirst(index, fs, run_path) ==
  IF FileExists(fs, run_path) \/ ~InIndex(index, run_path)
  THEN FileOutcome(LoadFromFile(fs, run_path),
                   IF FileExists(fs, run_path) THEN {FileKey(run_path)} ELSE {})
  ELSE LoadFromIndex(IndexedRun(index, run_path))

\* load_run_metadata: the index first, the file otherwise.
load_run_metadata(index, fs, run_path) ==
  IF InIndex(index, run_path)
  THEN LoadFromIndex(IndexedRun(index, run_path))
  ELSE FileOutcome(LoadFromFile(fs, run_path),
                   IF FileExists(fs, run_path) THEN {FileKey(run_path)} ELSE {})

(***************************************************************************)
(* health_check                                                            *)
(***************************************************************************)

\* Lines 131-149: True when the root exists, is a directory and can be listed.
health_check(root_state) == root_state = "dir"

(***************************************************************************)
(* The capabilities: extract_run_filters, query_runs and the run contexts  *)
(***************************************************************************)

\* str.lower() on the letters A-Z.
Lower(text) ==
  LET upper == <<"A", "B", "C", "D", "E", "F", "G", "H", "I", "J", "K", "L", "M",
                 "N", "O", "P", "Q", "R", "S", "T", "U", "V", "W", "X", "Y", "Z">>
      lower == <<"a", "b", "c", "d", "e", "f", "g", "h", "i", "j", "k", "l", "m",
                 "n", "o", "p", "q", "r", "s", "t", "u", "v", "w", "x", "y", "z">>
  IN  [i \in 1..Len(text) |->
         IF \E j \in 1..26 : upper[j] = text[i]
         THEN lower[CHOOSE j \in 1..26 : upper[j] = text[i]]
         ELSE text[i]]

\* BadgerRunContext(run_filename=run_path, run_name=metadata["name"], ...):
\* the context, and whether its fields have the declared types (tags a list
\* of str or None, names str, the four maps Dict[str, float] or None), which
\* the constructor validates.
BadgerRunContext(run_path, metadata) ==
  [valid |->
     /\ metadata.tags.t \in {"none", "list"}
     /\ \A i \in 1..Len(metadata.objectives) : metadata.objectives[i][1].k.t = "str"
     /\ \A i \in 1..Len(metadata.variables) : metadata.variables[i][1].k.t = "str"
     /\ \A field \in {"initial_values", "min_values", "max_values", "final_values"} :
          \/ GetOrNone(metadata, field).isNone
          \/ \A i \in 1..Len(GetOrNone(metadata, field).items) :
               /\ GetOrNone(metadata, field).items[i].k.t = "str"
               /\ ~GetOrNone(metadata, field).items[i].v.null,
   run |->
     [run_filename |-> run_path,
      run_name |-> metadata.name,
      timestamp |-> metadata.timestamp,
      beamline |-> metadata.beamline,
      badger_environment |-> metadata.badger_environment,
      algorithm |-> metadata.algorithm,
      variables |-> metadata.variables,
      objectives |-> metadata.objectives,
      constraints |-> metadata.constraints,
      num_evaluations |-> metadata.num_evaluations,
      initial_objective_values |-> GetOrNone(metadata, "initial_values"),
      min_objective_values |-> GetOrNone(metadata, "min_values"),
      max_objective_values |-> GetOrNone(metadata, "max_values"),
      final_objective_values |-> GetOrNone(metadata, "final_values"),
      description |-> metadata.description,
      tags |-> metadata.tags]]

\* A variant of the loop of query_runs that ends at the first failure.
LoadedRunsUntilFailure(index, fs, run_paths) ==
  [i \in 1..Len(run_paths) |->
     IF \A j \in 1..i :
          /\ load_run_metadata(index, fs, run_paths[j]).status = "ok"
          /\ BadgerRunContext(run_paths[j],
                              load_run_metadata(index, fs, run_paths[j]).md).valid
     THEN BadgerRunContext(run_paths[i],
                           load_run_metadata(index, fs, run_paths[i]).md)
     ELSE [valid |-> FALSE, run |-> [run_filename |-> run_paths[i]]]]

\* query_runs lines 191-231: for each path in turn, the context of the run,
\* or the failure of its load or of its validation (valid = FALSE).
LoadedRuns(index, fs, run_paths) ==
  [i \in 1..Len(run_paths) |->
     IF load_run_metadata(index, fs, run_paths[i]).status = "ok"
     THEN BadgerRunContext(run_paths[i],
                           load_run_metadata(index, fs, run_paths[i]).md)
     ELSE [valid |-> FALSE, run |-> [run_filename |-> run_paths[i]]]]

\* query_runs lines 112-181: the arguments of list_runs; num_runs defaults
\* to 1 and there is no TIME_RANGE input.
ListRunsArguments(filters) ==
  [time_range |-> NoRange,
   limit |-> IF filters.num_runs.some THEN filters.num_runs ELSE Some(1),
   beamline |-> filters.beamline,
   algorithm |-> filters.algorithm,
   badger_environment |-> filters.badger_environment,
   objective |-> filters.objective,
   sort_order |-> filters.sort_order]

\* A variant whose default is MINIMIZE.
get_objective_direction_minimize(objectives, obj_name) ==
  IF \E i \in 1..Len(objectives) : HasKey(objectives[i], obj_name)
  THEN GetItem(objectives[MinOf({i \in 1..Len(objectives) :
                                   HasKey(objectives[i], obj_name)})], obj_name)
  ELSE "MINIMIZE"

\* BadgerRunContext._get_objective_direction
get_objective_direction(objectives, obj_name) ==
  IF \E i \in 1..Len(objectives) : HasKey(objectives[i], obj_name)
  THEN GetItem(objectives[MinOf({i \in 1..Len(objectives) :
                                   HasKey(objectives[i], obj_name)})], obj_name)
  ELSE "MAXIMIZE"

(***************************************************************************)
(* Bounds and inputs                                                       *)
(***************************************************************************)

\* How many times the archive is changed behind the stores' backs in a run.
MaxFsOps == 1

\* list_runs is called with the limits -MaxNegLimit .. MaxLimit, and None.
MaxLimit == 2

MaxNegLimit == 1

\* How many times query_runs finds no usable cache and rebuilds the index.
MaxRebuilds == 2

\* Store instances, numbered in the order they are constructed.
Stores == {1, 2}

Absent == [exists |-> FALSE, doc |-> "X", mtime |-> Mtime.early]

File(doc, mtime) == [exists |-> TRUE, doc |-> doc, mtime |-> mtime]

EmptyArchive == [p \in RunPaths |-> Absent]

\* An archive with two runs stamped at the same second in different
\* beamlines, a corrupt file, a run whose name carries no timestamp, a run
\* inside a hidden directory and the four files the walk passes by.
MixedArchive ==
  [p \in RunPaths |->
     CASE p = Run.A -> File("A", Mtime.late)
       [] p = Run.B -> File("B", Mtime.late)
       [] p = Run.C -> File("X", Mtime.late)
       [] p = Run.D -> File("C", Mtime.early)
       [] OTHER -> File("A", Mtime.late)]

\* An archive of four parseable runs: two stamped at the same second in
\* October, and two (one by its name, one by its mtime) in August.
FullArchive ==
  [p \in RunPaths |->
     CASE p = Run.A -> File("A", Mtime.late)
       [] p = Run.B -> File("B", Mtime.late)
       [] p = Run.C -> File("C", Mtime.late)
       [] p = Run.D -> File("C", Mtime.early)
       [] OTHER -> Absent]

\* The paths load_run_metadata is called with: the run files (present or
\* not) and a directory of the archive.
LoadPaths == {Run.A, Run.B, Run.C, Run.D, Run.H, Seg.cu_hxr}

\* What the environment may write: a new parseable run, a new content for
\* an indexed run (with tags that JSON cannot hold), a touched file, and a
\* run that becomes corrupt.
Writes ==
  {[path |-> Run.C, file |-> File("C", Mtime.late)],
   [path |-> Run.A, file |-> File("T", Mtime.late)],
   [path |-> Run.D, file |-> File("C", Mtime.late)],
   [path |-> Run.B, file |-> File("X", Mtime.late)]}

\* What the environment may delete: a run that shares its time with another,
\* and the run whose time is its mtime.
Deletes == {Run.A, Run.D}

Beamlines == {None, Some(Seg.cu_hxr), Some(Seg.lcls_ii)}

Objectives == {None, Some("f")}

\* The time ranges: none; from the October time on; up to the August time;
\* from the August time to the October date.  The limits: None and
\* -MaxNegLimit .. MaxLimit.
Queries ==
  [time_range :
     {NoRange,
      Range(Some(IsoFormat(DateTime(2025, 10, 10, 15, 43, 43, 0))), None),
      Range(None, Some(IsoFormat(DateTime(2025, 8, 13, 11, 30, 25, 0)))),
      Range(Some(IsoFormat(DateTime(2025, 8, 13, 11, 30, 25, 0))),
            Some(SubSeq(IsoFormat(DateTime(2025, 10, 10, 15, 43, 43, 0)), 1, 10)))},
   limit : {None} \cup {Some(n) : n \in (0 - MaxNegLimit)..MaxLimit},
   beamline : Beamlines,
   algorithm : {None, Some("neldermead")},
   badger_environment : {None, Some("lcls")},
   objective : Objectives,
   sort_order : {"newest_first", "oldest_first"}]

\* The queries with at most the beamline filter and a limit of None or 1.
PlainQueries ==
  {q \in Queries :
     /\ q.time_range = NoRange /\ q.algorithm = None
     /\ q.badger_environment = None /\ q.objective = None
     /\ q.limit \in {None, Some(1)}}

\* The filters of get_most_recent_run: every combination, and the ones
\* with the beamline and the objective alone.
AllRecentFilters ==
  [beamline : Beamlines, algorithm : {None, Some("neldermead")},
   badger_environment : {None, Some("lcls")}, objective : Objectives]

RecentFilters ==
  [beamline : Beamlines, algorithm : {None},
   badger_environment : {None}, objective : Objectives]

(***************************************************************************)
(* State                                                                   *)
(***************************************************************************)

VARIABLES
  root,     \* what archive_root names: "dir", "file" or "missing"
  files,    \* the run files under the root: path -> content and mtime
  cache,    \* the content of {archive_root}/.otter_index.json
  stores,   \* per BadgerArchiveDataSource instance: its state and self.index
  now,      \* the clock datetime.now() reads
  fs_ops,   \* how many times the archive was changed so far
  result    \* the call the caller is looking at: what it returned or raised

vars == <<root, files, cache, stores, now, fs_ops, result>>

\* from_cache records how the index was obtained (history, not a field).
NoStore == [status |-> "none", index |-> NoIndex, from_cache |-> FALSE]

NoResult == [op |-> "none"]

Init ==
  /\ root \in {"dir", "file", "missing"}
  /\ files \in (IF root = "dir" THEN {EmptyArchive, MixedArchive} ELSE {EmptyArchive})
  /\ cache \in (IF root # "dir" THEN {NoCacheFile}
                ELSE IF files = MixedArchive THEN {NoCacheFile, TruncatedCache}
                ELSE {NoCacheFile, CacheIsDirectory})
  /\ stores = [s \in Stores |-> NoStore]
  /\ now = 0
  /\ fs_ops = 0
  /\ result = NoResult

CacheEvent(kind) == [e |-> kind, path |-> <<>>, current |-> 0, total |-> 0]

\* The caller is single-threaded: it makes a call when the last one is done.
CanConstruct(s) ==
  /\ result = NoResult
  /\ stores[s].status = "none"
  /\ \A t \in Stores : t < s => stores[t].status # "none"

CanCall(s) == result = NoResult /\ stores[s].status = "ready"

\* A variant that tries the cache before it looks at the root.
ConstructFailsAfterLoad(s, use_cache, progress_callback) ==
  /\ CanConstruct(s)
  /\ root # "dir"
  /\ stores' = [stores EXCEPT ![s].status = "failed"]
  /\ result' = [op |-> "construct", store |-> s, use_cache |-> use_cache,
                progress_callback |-> progress_callback,
                status |-> IF root = "missing" THEN "FileNotFoundError"
                           ELSE "NotADirectoryError",
                events |-> IF use_cache THEN <<CacheEvent("load_cache")>> ELSE <<>>]
  /\ UNCHANGED <<root, files, cache, now, fs_ops>>

\* __init__ when the root is not an existing directory (lines 100-109).
ConstructFails(s, use_cache, progress_callback) ==
  /\ CanConstruct(s)
  /\ root # "dir"
  /\ stores' = [stores EXCEPT ![s].status = "failed"]
  /\ result' = [op |-> "construct", store |-> s, use_cache |-> use_cache,
                progress_callback |-> progress_callback,
                status |-> IF root = "missing" THEN "FileNotFoundError"
                           ELSE "NotADirectoryError",
                events |-> <<>>]
  /\ UNCHANGED <<root, files, cache, now, fs_ops>>

\* __init__ when the cache loads (lines 115-118): the index is the cache.
ConstructFromCache(s, progress_callback) ==
  /\ CanConstruct(s)
  /\ root = "dir"
  /\ ~LoadCache(cache).isNone
  /\ stores' = [stores EXCEPT ![s] =
                  [status |-> "ready", index |-> LoadCache(cache).index,
                   from_cache |-> TRUE]]
  /\ result' = [op |-> "construct", store |-> s, use_cache |-> TRUE,
                progress_callback |-> progress_callback,
                status |-> "ok", events |-> <<CacheEvent("load_cache")>>]
  /\ UNCHANGED <<root, files, cache, now, fs_ops>>

\* Lines 118-122: the built index becomes self.index and, with use_cache,
\* is saved.
InstallBuilt(s, use_cache, progress_callback, all_files, index) ==
  /\ stores' = [stores EXCEPT ![s] =
                  [status |-> "ready", index |-> index, from_cache |-> FALSE]]
  /\ cache' = IF use_cache THEN SaveCache(cache, index) ELSE cache
  /\ result' =
       [op |-> "construct", store |-> s, use_cache |-> use_cache,
        progress_callback |-> progress_callback, status |-> "ok",
        events |-> (IF use_cache THEN <<CacheEvent("load_cache")>> ELSE <<>>)
                     \o BuildEvents(all_files, progress_callback)
                     \o (IF use_cache THEN <<CacheEvent("save_cache")>> ELSE <<>>)]

\* __init__ when there is no usable cache (lines 118-122): build, then save.
ConstructByBuild(s, use_cache, progress_callback) ==
  /\ CanConstruct(s)
  /\ root = "dir"
  /\ use_cache => LoadCache(cache).isNone
  /\ \E all_files \in WalkOrders(files) :
       InstallBuilt(s, use_cache, progress_callback, all_files,
                    BuildIndex(files, all_files, now))
  /\ now' = now + 1
  /\ UNCHANGED <<root, files, fs_ops>>

Construct(s, use_cache, progress_callback) ==
  \/ ConstructFails(s, use_cache, progress_callback)
  \/ use_cache /\ ConstructFromCache(s, progress_callback)
  \/ ConstructByBuild(s, use_cache, progress_callback)

ListRuns(s, q) ==
  /\ CanCall(s)
  /\ result' = [op |-> "list_runs", store |-> s, args |-> q, status |-> "ok",
                value |-> list_runs(stores[s].index, q)]
  /\ UNCHANGED <<root, files, cache, stores, now, fs_ops>>

LoadResult(s, run_path, r) ==
  [op |-> "load_run_metadata", store |-> s, args |-> run_path,
   status |-> r.status, value |-> r.md, reads |-> r.reads]

\* A variant that keeps what a fallback load read as a new index record.
LoadRunMetadataCaching(s, run_path) ==
  /\ CanCall(s)
  /\ result' = LoadResult(s, run_path,
                          load_run_metadata(stores[s].index, files, run_path))
  /\ stores' =
       IF ~InIndex(stores[s].index, run_path)
            /\ LoadFromFile(files, run_path).status = "ok"
       THEN [stores EXCEPT ![s].index.runs =
               Append(@, SerializableMetadata(run_path,
                                              LoadFromFile(files, run_path).md))]
       ELSE stores
  /\ UNCHANGED <<root, files, cache, now, fs_ops>>

LoadRunMetadata(s, run_path) ==
  /\ CanCall(s)
  /\ result' = LoadResult(s, run_path,
                          load_run_metadata(stores[s].index, files, run_path))
  /\ UNCHANGED <<root, files, cache, stores, now, fs_ops>>

GetMostRecentRun(s, f) ==
  /\ CanCall(s)
  /\ result' = [op |-> "get_most_recent_run", store |-> s, args |-> f,
                status |-> "ok", value |-> get_most_recent_run(stores[s].index, f)]
  /\ UNCHANGED <<root, files, cache, stores, now, fs_ops>>

HealthCheck(s) ==
  /\ CanCall(s)
  /\ result' = [op |-> "health_check", store |-> s, status |-> "ok",
                value |-> health_check(root)]
  /\ UNCHANGED <<root, files, cache, stores, now, fs_ops>>

\* The caller is done with the last call's result.
Return ==
  /\ result # NoResult
  /\ result' = NoResult
  /\ UNCHANGED <<root, files, cache, stores, now, fs_ops>>

\* The environment writes (creates or replaces) a run file.
WriteFile(w) ==
  /\ result = NoResult
  /\ root = "dir"
  /\ fs_ops < MaxFsOps
  /\ files[w.path] # w.file
  /\ files' = [files EXCEPT ![w.path] = w.file]
  /\ fs_ops' = fs_ops + 1
  /\ UNCHANGED <<root, cache, stores, now, result>>

\* The environment deletes a run file.
DeleteFile(p) ==
  /\ result = NoResult
  /\ root = "dir"
  /\ fs_ops < MaxFsOps
  /\ files[p].exists
  /\ files' = [files EXCEPT ![p] = Absent]
  /\ fs_ops' = fs_ops + 1
  /\ UNCHANGED <<root, cache, stores, now, result>>

Next ==
  \/ \E s \in Stores, use_cache, progress_callback \in BOOLEAN :
       Construct(s, use_cache, progress_callback)
  \/ \E s \in Stores, q \in PlainQueries : ListRuns(s, q)
  \/ \E s \in Stores, p \in LoadPaths : LoadRunMetadata(s, p)
  \/ \E s \in Stores, f \in RecentFilters : GetMostRecentRun(s, f)
  \/ \E s \in Stores : HealthCheck(s)
  \/ Return
  \/ \E w \in Writes : WriteFile(w)
  \/ \E p \in Deletes : DeleteFile(p)

Spec == Init /\ [][Next]_vars

\* The query engine alone: one store built over an archive that does not
\* change, every query and every most-recent lookup.
InitQuery ==
  /\ root = "dir"
  /\ files \in {EmptyArchive, FullArchive}
  /\ cache = NoCacheFile
  /\ stores = [s \in Stores |-> NoStore]
  /\ now = 0
  /\ fs_ops = 0
  /\ result = NoResult

NextQuery ==
  \/ \E use_cache, progress_callback \in BOOLEAN :
       ConstructByBuild(1, use_cache, progress_callback)
  \/ \E q \in Queries : ListRuns(1, q)
  \/ \E f \in AllRecentFilters : GetMostRecentRun(1, f)
  \/ Return

SpecQuery == InitQuery /\ [][NextQuery]_vars

\* extract_timestamp_from_filename alone: one file of the archive, whose
\* name is parsed on its own and by a load of the file.  The names are
\* {env}-{year}-{month}-{day}-{time}.yaml over the parts below (an
\* environment with a hyphen; years that datetime() refuses, that do not
\* fit a C int, or that are no number; a month that does not exist and one
\* of one digit; a day the month may not have; times that are too short,
\* out of range, or too long), and two names of fewer than five parts.
NamePart ==
  [env   |-> {<<"l", "c", "l", "s">>,
              <<"m", "y", "-", "e", "n", "v">>},
   year  |-> {<<"2", "0", "2", "5">>,
              <<"0">>,
              <<"1", "0", "0", "0", "0">>,
              <<"9", "9", "9", "9", "9", "9", "9", "9", "9", "9", "9">>,
              <<"2", "0", "x", "5">>},
   month |-> {<<"1", "0">>,
              <<"1", "3">>,
              <<"2">>},
   day   |-> {<<"1", "0">>,
              <<"3", "1">>},
   time  |-> {<<"1", "5", "4", "3", "4", "3">>,
              <<"1", "5", "4", "3">>,
              <<"2", "5", "6", "1", "6", "1">>,
              <<"1", "5", "4", "3", "4", "3", "9", "9">>},
   short |-> {<<"r", "e", "a", "d", "m", "e", ".", "y", "a", "m", "l">>,
              <<"l", "c", "l", "s", "-", "2", "0", "2", "5", "-", "1", "0", "-", "1", "0", ".", "y", "a", "m", "l">>}]

Filenames ==
  {env \o <<"-">> \o year \o <<"-">> \o month \o <<"-">> \o day \o <<"-">> \o time
     \o YamlExt :
     env \in NamePart.env, year \in NamePart.year, month \in NamePart.month,
     day \in NamePart.day, time \in NamePart.time}
    \cup NamePart.short

InitParse ==
  /\ root = "dir"
  /\ \E name \in Filenames :
       files = (JoinPath(<<Seg.dev, name>>) :> File("C", Mtime.early))
  /\ cache = NoCacheFile
  /\ stores = [s \in Stores |-> NoStore]
  /\ now = 0
  /\ fs_ops = 0
  /\ result = NoResult

\* extract_timestamp_from_filename(filename): the value it returns, or the
\* exception that leaves it.
ExtractTimestamp(run_path) ==
  /\ result = NoResult
  /\ result' = [op |-> "extract_timestamp_from_filename",
                args |-> PathName(run_path),
                status |-> IF extract_timestamp_from_filename(PathName(run_path)).kind
                                = "overflow"
                           THEN "OverflowError" ELSE "ok",
                value |-> extract_timestamp_from_filename(PathName(run_path))]
  /\ UNCHANGED <<root, files, cache, stores, now, fs_ops>>

\* The file branch of load_run_metadata on the file (lines 398-507).
LoadNamedFile(run_path) ==
  /\ result = NoResult
  /\ result' = [op |-> "load_run_metadata", args |-> run_path,
                status |-> LoadFromFile(files, run_path).status,
                value |-> LoadFromFile(files, run_path).md]
  /\ UNCHANGED <<root, files, cache, stores, now, fs_ops>>

NextParse ==
  \/ \E run_path \in DOMAIN files : ExtractTimestamp(run_path)
  \/ \E run_path \in DOMAIN files : LoadNamedFile(run_path)
  \/ Return

SpecParse == InitParse /\ [][NextParse]_vars

\* extract_run_filters: the filters the extraction step returned, with the
\* beamline validated (lines 203-216), stored as RUN_QUERY_FILTERS.
ExtractRunFilters(extracted) ==
  /\ result = NoResult
  /\ LET valid_beamlines ==
           {Seg.cu_hxr, Seg.cu_sxr,
            <<"s", "c", "_", "b", "s", "y", "d">>,
            <<"s", "c", "_", "d", "i", "a", "g", "0">>,
            <<"s", "c", "_", "s", "x", "r">>,
            <<"s", "c", "_", "h", "x", "r">>,
            Seg.dev}
     IN  result' =
           [op |-> "extract_run_filters", args |-> extracted, status |-> "ok",
            value |->
              [extracted EXCEPT !.beamline =
                 IF TruthySeq(extracted.beamline)
                      /\ extracted.beamline.v \notin valid_beamlines
                 THEN (IF Lower(extracted.beamline.v) \in valid_beamlines
                       THEN Some(Lower(extracted.beamline.v))
                       ELSE None)
                 ELSE extracted.beamline]]
  /\ UNCHANGED <<root, files, cache, stores, now, fs_ops>>

\* Lines 236-248: the container of the loaded runs is stored when there is
\* at least one; otherwise the update is empty.
StoreRuns(filters, index, loads) ==
  result' =
    [op |-> "query_runs", args |-> filters, status |-> "ok",
     total_runs |-> index.total_runs,
     run_paths |-> [i \in 1..Len(loads) |-> loads[i].run.run_filename],
     failed |-> {loads[i].run.run_filename : i \in {k \in 1..Len(loads) : ~loads[k].valid}},
     stored |-> \E k \in 1..Len(loads) : loads[k].valid,
     runs |-> [k \in 1..Len(SelectSeq(loads, LAMBDA c : c.valid)) |->
                 SelectSeq(loads, LAMBDA c : c.valid)[k].run]]

\* query_runs.execute (lines 101-255): the filters of the RUN_QUERY_FILTERS
\* context, with num_runs defaulting to 1; a data source over the archive
\* (from the cache, or built and saved); list_runs; one load and one
\* BadgerRunContext per path, a failure skipping the path; the container.
QueryRuns ==
  /\ result.op = "extract_run_filters"
  /\ root = "dir"
  /\ IF LoadCache(cache).isNone
     THEN /\ now < MaxRebuilds
          /\ \E all_files \in WalkOrders(files) :
               /\ StoreRuns(result.value, BuildIndex(files, all_files, now),
                            LoadedRuns(BuildIndex(files, all_files, now), files,
                                       list_runs(BuildIndex(files, all_files, now),
                                                 ListRunsArguments(result.value))))
               /\ cache' = SaveCache(cache, BuildIndex(files, all_files, now))
          /\ now' = now + 1
     ELSE /\ StoreRuns(result.value, LoadCache(cache).index,
                       LoadedRuns(LoadCache(cache).index, files,
                                  list_runs(LoadCache(cache).index,
                                            ListRunsArguments(result.value))))
          /\ UNCHANGED <<cache, now>>
  /\ UNCHANGED <<root, files, stores, fs_ops>>

\* run._get_objective_direction(obj_name) on a run of the stored container,
\* as analyze_runs calls it.
GetObjectiveDirection(i, obj_name) ==
  /\ result.op = "query_runs"
  /\ i \in 1..Len(result.runs)
  /\ result' = [op |-> "get_objective_direction", run |-> result.runs[i],
                args |-> obj_name, status |-> "ok",
                value |-> get_objective_direction(result.runs[i].objectives,
                                                  obj_name)]
  /\ UNCHANGED <<root, files, cache, stores, now, fs_ops>>

\* Metadata extraction and its users.  The archives: one document, stored
\* both as an indexed run and inside a hidden directory (where only the
\* file branch of load_run_metadata finds it); four runs of which one has a
\* null among its statistics; two runs neither of which makes a valid
\* context; no run at all.  The first store builds the index and saves it,
\* the second one loads it from the cache; query_runs makes a data source
\* of its own.
InitStats ==
  /\ root = "dir"
  /\ files \in
       {(Run.C :> File(doc, Mtime.late)) @@ (Run.H :> File(doc, Mtime.late)) :
          doc \in {"A", "B", "C"} \cup DOMAIN EvaluationDocs}
       \cup {(Run.A :> File("A", Mtime.late)) @@ (Run.B :> File("U", Mtime.late))
               @@ (Run.C :> File("R", Mtime.late)) @@ (Run.D :> File("C", Mtime.early)),
             (Run.A :> File("U", Mtime.late)) @@ (Run.B :> File("T", Mtime.late)),
             EmptyArchive}
  /\ cache = NoCacheFile
  /\ stores = [s \in Stores |-> NoStore]
  /\ now = 0
  /\ fs_ops = 0
  /\ result = NoResult

NextStats ==
  \/ \E s \in Stores, use_cache, progress_callback \in BOOLEAN :
       ConstructByBuild(s, use_cache, progress_callback)
  \/ \E s \in Stores, progress_callback \in BOOLEAN :
       ConstructFromCache(s, progress_callback)
  \/ \E s \in Stores, p \in DOMAIN files : LoadRunMetadata(s, p)
  \/ \E extracted \in
         [num_runs : {None, Some(3)},
          beamline : {None, Some(<<>>), Some(Seg.cu_hxr), Some(Seg.lcls_ii),
                      Some(<<"C", "U", "_", "H", "X", "R">>),
                      Some(<<"D", "e", "v">>)},
          algorithm : {None},
          badger_environment : {None},
          objective : {None},
          sort_order : {"newest_first", "oldest_first"}] :
       ExtractRunFilters(extracted)
  \/ QueryRuns
  \/ \E i \in 1..Cardinality(DOMAIN files), obj_name \in {StrKey("f"), StrKey("g")} :
       GetObjectiveDirection(i, obj_name)
  \/ Return

SpecStats == InitStats /\ [][NextStats]_vars

\* One step of __init__(use_cache=True) of instance s, other instances
\* running their own steps in between.  The cache file is written in two
\* blocks, each at the writer's own offset: the head (created_at and the
\* first half of the runs) and the tail (the other runs and total_runs).
\*   none:   _load_cache (lines 115, 165-178) reads the file as it is;
\*   missed: _build_index (line 119), then open(cache_path, 'w') (line 159),
\*           which empties the file;
\*   opened: json.dump flushes the head;
\*   half:   json.dump flushes the tail and the file is closed.
\* A file that lacks a block does not parse.  The documents two instances
\* write for the archive of InitRace have the same length and the same
\* layout (they differ in single letters of the paths and beamlines and in
\* the digits of created_at), so a file made of the head of one and the tail
\* of the other parses.
ConstructStep(s) ==
  LET NoBlock == [by |-> 0]
      HeadOf(index) ==
        [by |-> s, created_at |-> index.created_at,
         runs |-> SubSeq(index.runs, 1, (Len(index.runs) + 1) \div 2)]
      TailOf(index) ==
        [by |-> s, total_runs |-> index.total_runs,
         runs |-> SubSeq(index.runs, (Len(index.runs) + 1) \div 2 + 1,
                         Len(index.runs))]
      Parsed(head, tail) ==
        [kind |-> "json", head |-> head, tail |-> tail,
         index |-> JsonRoundTrip([version |-> "1.0", created_at |-> head.created_at,
                                  runs |-> head.runs \o tail.runs,
                                  total_runs |-> tail.total_runs])]
      Contents(head, tail) ==
        IF head.by = 0 \/ tail.by = 0
        THEN [kind |-> "partial", head |-> head, tail |-> tail]
        ELSE Parsed(head, tail)
  IN  \/ /\ stores[s].status = "none"
         /\ stores' = [stores EXCEPT ![s] =
                         IF LoadCache(cache).isNone
                         THEN [status |-> "missed", index |-> NoIndex,
                               from_cache |-> FALSE]
                         ELSE [status |-> "ready", index |-> LoadCache(cache).index,
                               from_cache |-> TRUE]]
         /\ UNCHANGED <<cache, now>>
      \/ /\ stores[s].status = "missed"
         /\ \E all_files \in WalkOrders(files) :
              stores' = [stores EXCEPT ![s] =
                           [status |-> "opened",
                            index |-> BuildIndex(files, all_files, now),
                            from_cache |-> FALSE]]
         /\ cache' = [kind |-> "partial", head |-> NoBlock, tail |-> NoBlock]
         /\ now' = now + 1
      \/ /\ stores[s].status = "opened"
         /\ cache' = Contents(HeadOf(stores[s].index), cache.tail)
         /\ stores' = [stores EXCEPT ![s].status = "half"]
         /\ UNCHANGED now
      \/ /\ stores[s].status = "half"
         /\ cache' = Contents(cache.head, TailOf(stores[s].index))
         /\ stores' = [stores EXCEPT ![s].status = "ready"]
         /\ UNCHANGED now

\* Three instances constructed at once over an archive of two runs with the
\* same content, the same file name and so the same time in two beamlines;
\* the order of the two in an index is the order of the walk.
InitRace ==
  /\ root = "dir"
  /\ files = (JoinPath(<<Seg.cu_hxr, FileName.lcls>>) :> File("A", Mtime.late))
               @@ (Run.B :> File("A", Mtime.late))
  /\ cache = NoCacheFile
  /\ stores = [s \in 1..3 |-> NoStore]
  /\ now = 0
  /\ fs_ops = 0
  /\ result = NoResult

NextRace ==
  \E s \in DOMAIN stores :
    ConstructStep(s) /\ UNCHANGED <<root, files, fs_ops, result>>

SpecRace == InitRace /\ [][NextRace]_vars

(***************************************************************************)
(* Properties of list_runs                                                 *)
(***************************************************************************)

PathSet(paths) == {paths[i] : i \in 1..Len(paths)}

\* Chronological order of two date-times.
DtKey(dt) ==
  <<dt.year, dt.month, dt.day, dt.hour, dt.minute, dt.second, dt.microsecond>>

KeyLT(ka, kb) ==
  LET diff == {i \in 1..7 : ka[i] # kb[i]}
  IN  diff # {} /\ ka[MinOf(diff)] < kb[MinOf(diff)]

DtLT(a, b) == KeyLT(DtKey(a), DtKey(b))

DtLE(a, b) == a = b \/ DtLT(a, b)

Smaller(a, b) == IF a < b THEN a ELSE b

\* The index of the store the last call was made on.
QueriedIndex == stores[result.store].index

\* The position and the time of the record a returned path belongs to.
PositionOf(index, path) ==
  MinOf({i \in 1..Len(index.runs) : index.runs[i].run_filename = path})

TimeOf(index, path) ==
  FromIsoFormat(index.runs[PositionOf(index, path)].timestamp).dt

\* The query q with no limit, and with none or one of its filters.
Unlimited(q) == [q EXCEPT !.limit = None]

NoFilters(q) ==
  [time_range |-> NoRange, limit |-> None, beamline |-> None,
   algorithm |-> None, badger_environment |-> None, objective |-> None,
   sort_order |-> q.sort_order]

OnlyTimeRange(q) == [NoFilters(q) EXCEPT !.time_range = q.time_range]

OnlyBeamline(q) == [NoFilters(q) EXCEPT !.beamline = q.beamline]

OnlyAlgorithm(q) == [NoFilters(q) EXCEPT !.algorithm = q.algorithm]

OnlyEnvironment(q) ==
  [NoFilters(q) EXCEPT !.badger_environment = q.badger_environment]

OnlyObjective(q) == [NoFilters(q) EXCEPT !.objective = q.objective]

\* C1: filter conjunction.  The set of paths list_runs returns for a query
\* is the intersection of the sets it returns for each of the query's
\* filters supplied alone.
C1_FilterConjunction ==
  (result.op = "list_runs" /\ result.args.limit = None) =>
    PathSet(result.value) =
      PathSet(list_runs(QueriedIndex, OnlyTimeRange(result.args)))
        \cap PathSet(list_runs(QueriedIndex, OnlyBeamline(result.args)))
        \cap PathSet(list_runs(QueriedIndex, OnlyAlgorithm(result.args)))
        \cap PathSet(list_runs(QueriedIndex, OnlyEnvironment(result.args)))
        \cap PathSet(list_runs(QueriedIndex, OnlyObjective(result.args)))

\* Two filters were supplied, each alone accepts more than both together,
\* and together they accept something.
C1_Witness ==
  /\ result.op = "list_runs" /\ result.args.limit = None
  /\ result.args.beamline.some /\ result.args.badger_environment.some
  /\ result.value # <<>>
  /\ PathSet(result.value)
       # PathSet(list_runs(QueriedIndex, OnlyBeamline(result.args)))
  /\ PathSet(result.value)
       # PathSet(list_runs(QueriedIndex, OnlyEnvironment(result.args)))

\* The returned paths run from new to old (newest_first) or from old to new
\* (oldest_first) by the time of their records.
OrderedByTime(index, q, paths) ==
  \A i, j \in 1..Len(paths) :
    i < j =>
      IF q.sort_order = "oldest_first"
      THEN DtLE(TimeOf(index, paths[i]), TimeOf(index, paths[j]))
      ELSE DtLE(TimeOf(index, paths[j]), TimeOf(index, paths[i]))

\* Records with the same time appear in the order the index holds them.
TiesInIndexOrder(index, paths) ==
  \A i, j \in 1..Len(paths) :
    (i < j /\ TimeOf(index, paths[i]) = TimeOf(index, paths[j]))
      => PositionOf(index, paths[i]) < PositionOf(index, paths[j])

\* Records with the same time appear in the reverse of that order.
TiesInReverseIndexOrder(index, paths) ==
  \A i, j \in 1..Len(paths) :
    (i < j /\ TimeOf(index, paths[i]) = TimeOf(index, paths[j]))
      => PositionOf(index, paths[i]) > PositionOf(index, paths[j])

\* C2 as stated: the result is ordered by time in the requested direction
\* and records with equal timestamps keep their index order.
C2_AsStated ==
  (result.op = "list_runs" /\ result.value # <<>>) =>
    /\ OrderedByTime(QueriedIndex, result.args, result.value)
    /\ TiesInIndexOrder(QueriedIndex, result.value)

\* C2: sort invariant.  The result is ordered by time in the requested
\* direction; records with equal timestamps keep their index order under
\* newest_first and appear in reverse index order under oldest_first.
C2_SortInvariant ==
  (result.op = "list_runs" /\ result.value # <<>>) =>
    /\ OrderedByTime(QueriedIndex, result.args, result.value)
    /\ IF result.args.sort_order = "oldest_first"
       THEN TiesInReverseIndexOrder(QueriedIndex, result.value)
       ELSE TiesInIndexOrder(QueriedIndex, result.value)

\* An oldest_first result with two records of one time and a later one.
C2_Witness ==
  /\ result.op = "list_runs"
  /\ result.args.sort_order = "oldest_first"
  /\ Len(result.value) >= 3
  /\ TimeOf(QueriedIndex, result.value[1]) = TimeOf(QueriedIndex, result.value[2])
  /\ DtLT(TimeOf(QueriedIndex, result.value[2]),
          TimeOf(QueriedIndex, result.value[Len(result.value)]))

\* With a limit of n the result is the first min(n, matches) entries of the
\* unlimited result, and no entry left out is newer (newest_first) or older
\* (oldest_first) than an entry returned.
LimitedTo(index, q, n, paths) ==
  /\ Len(paths) = Smaller(n, Len(list_runs(index, Unlimited(q))))
  /\ Len(paths) <= n
  /\ paths = SubSeq(list_runs(index, Unlimited(q)), 1, Len(paths))
  /\ \A i \in 1..Len(paths) :
       \A j \in (Len(paths) + 1)..Len(list_runs(index, Unlimited(q))) :
         IF q.sort_order = "oldest_first"
         THEN DtLE(TimeOf(index, paths[i]),
                   TimeOf(index, list_runs(index, Unlimited(q))[j]))
         ELSE DtLE(TimeOf(index, list_runs(index, Unlimited(q))[j]),
                   TimeOf(index, paths[i]))

\* C3 as stated: for every limit N the result has exactly min(N, matches)
\* entries, the first N of the filtered list in the requested order.
C3_AsStated ==
  (result.op = "list_runs" /\ result.args.limit.some) =>
    LimitedTo(QueriedIndex, result.args, result.args.limit.v, result.value)

\* C3: limit is post-filter and post-sort.  For every limit N >= 0 the
\* result has exactly min(N, matches) entries, never more than N, and they
\* are the first N entries of the filtered list in the requested order.
C3_LimitAfterSort ==
  (result.op = "list_runs" /\ result.args.limit.some /\ result.args.limit.v >= 0) =>
    LimitedTo(QueriedIndex, result.args, result.args.limit.v, result.value)

\* A limit of 1 cut an oldest_first, filtered result of several records.
C3_Witness ==
  /\ result.op = "list_runs"
  /\ result.args.limit = Some(1)
  /\ result.args.sort_order = "oldest_first"
  /\ result.args.beamline.some
  /\ Len(result.value) = 1
  /\ Len(list_runs(QueriedIndex, Unlimited(result.args))) >= 2

\* The record satisfies every filter the query supplies.
Satisfies(r, q) ==
  /\ (~q.time_range.isNone /\ TruthySeq(q.time_range.start))
       => StrLE(q.time_range.start.v, r.timestamp)
  /\ (~q.time_range.isNone /\ TruthySeq(q.time_range.end))
       => StrLE(r.timestamp, q.time_range.end.v)
  /\ TruthySeq(q.beamline) => r.beamline = q.beamline.v
  /\ TruthyStr(q.algorithm) => r.algorithm = q.algorithm.v
  /\ TruthyStr(q.badger_environment) => r.badger_environment = q.badger_environment.v
  /\ TruthyStr(q.objective) =>
       \E i \in 1..Len(r.objectives) :
         \E k \in 1..Len(r.objectives[i]) : r.objectives[i][k].k = StrKey(q.objective.v)

\* C4: empty result is not an error.  When no record of the index satisfies
\* the supplied filters, list_runs returns the empty list and does not raise.
C4_EmptyResult ==
  (/\ result.op = "list_runs"
   /\ \A i \in 1..Len(QueriedIndex.runs) : ~Satisfies(QueriedIndex.runs[i], result.args))
    => result.status = "ok" /\ result.value = <<>>

\* A beamline of no record was asked of an index that holds records.
C4_Witness ==
  /\ result.op = "list_runs"
  /\ QueriedIndex.runs # <<>>
  /\ result.args.beamline = Some(Seg.lcls_ii)
  /\ result.args.time_range # NoRange
  /\ result.status = "ok" /\ result.value = <<>>

(***************************************************************************)
(* Properties of construction, the cache and load_run_metadata             *)
(***************************************************************************)

\* The timestamps of the records, read back as date-times.
ParsedTimes(runs) == [i \in 1..Len(runs) |-> FromIsoFormat(runs[i].timestamp)]

\* Every one is a date-time and none is later than the one before it.
Descending(times) ==
  \A i \in 1..Len(times) :
    /\ times[i].ok
    /\ i > 1 => DtLE(times[i].dt, times[i - 1].dt)

SortedNewestFirst(runs) == Descending(ParsedTimes(runs))

\* C5: canonical order invariant.  Once a store is constructed, from the
\* cache or by a rebuild, and after any later calls, the records of its
\* index are sorted by timestamp, newest first.
C5_CanonicalOrder ==
  \A s \in Stores :
    stores[s].status = "ready" => SortedNewestFirst(stores[s].index.runs)

\* A store that took its index from the cache an earlier store wrote was
\* queried; the index holds runs of different times.
C5_Witness ==
  /\ stores[1].status = "ready" /\ ~stores[1].from_cache
  /\ stores[2].status = "ready" /\ stores[2].from_cache
  /\ result.op = "list_runs" /\ result.store = 2
  /\ Len(stores[2].index.runs) >= 3
  /\ stores[2].index.runs[1].timestamp
       # stores[2].index.runs[Len(stores[2].index.runs)].timestamp

\* The collected files whose metadata load succeeds.
Parseable(fs) == {f \in VisibleFiles(fs) : LoadFromFile(fs, f).status = "ok"}

\* The last call was a construction that rebuilt the index.
Rebuilt ==
  /\ result.op = "construct"
  /\ \E i \in 1..Len(result.events) : result.events[i].e = "walk"

\* The index holds one record for each of these files and no other.
HoldsExactly(index, paths) ==
  /\ Len(index.runs) = Cardinality(paths)
  /\ PathSet(RunFilenames(index.runs)) = paths
  /\ index.total_runs = Cardinality(paths)

C7_CacheRoundTrip ==
  \A s, t \in Stores :
    (/\ stores[s].status = "ready" /\ ~stores[s].from_cache
     /\ stores[t].status = "ready" /\ stores[t].from_cache
     /\ cache.kind = "json"
     /\ cache.index.created_at = stores[s].index.created_at)
      => stores[t].index.runs = stores[s].index.runs

\* The last call was load_run_metadata for a path the index does not hold.
MissedIndex ==
  /\ result.op = "load_run_metadata"
  /\ ~InIndex(QueriedIndex, result.args)

C9_IndexHit ==
  (result.op = "load_run_metadata" /\ InIndex(QueriedIndex, result.args)) =>
    /\ result.status = "ok"
    /\ result.reads = {}
    /\ LET rec == QueriedIndex.runs[PositionOf(QueriedIndex, result.args)]
       IN  /\ result.value.name = rec.run_name
           /\ IsoFormat(result.value.timestamp) = rec.timestamp
           /\ result.value.beamline = rec.beamline
           /\ result.value.badger_environment = rec.badger_environment
           /\ result.value.algorithm = rec.algorithm
           /\ result.value.variables = rec.variables
           /\ result.value.objectives = rec.objectives
           /\ result.value.constraints = rec.constraints
           /\ result.value.num_evaluations = rec.num_evaluations
           /\ result.value.initial_values = rec.initial_objective_values
           /\ result.value.min_values = rec.min_objective_values
           /\ result.value.max_values = rec.max_objective_values
           /\ result.value.final_values = rec.final_objective_values
           /\ result.value.description = rec.description
           /\ result.value.tags = rec.tags

\* An indexed run was loaded after its file was deleted.
C9_Witness ==
  /\ result.op = "load_run_metadata"
  /\ InIndex(QueriedIndex, result.args)
  /\ ~FileExists(files, result.args)
  /\ result.status = "ok"

\* A construction with caching enabled while a parseable cache is present
\* takes the cache contents as the index; it walks nothing, parses no file,
\* makes no progress call and leaves the cache file as it is.
CacheHitStep ==
  \A s \in Stores :
    (/\ stores[s].status = "none" /\ stores'[s].status = "ready"
     /\ result'.use_cache
     /\ cache.kind = "json")
      => /\ stores'[s].index = cache.index
         /\ cache' = cache
         /\ result'.events = <<CacheEvent("load_cache")>>

\* list_runs on a store constructed from the cache lists the runs of the
\* cache, whatever the archive holds now.
CacheHitFrozen ==
  (/\ result.op = "list_runs"
   /\ stores[result.store].from_cache
   /\ result.args = NoFilters(result.args)
   /\ result.args.sort_order = "newest_first")
    => cache.kind = "json" /\ result.value = RunFilenames(cache.index.runs)

\* C10: cache hit skips the walk.  With caching enabled and a parseable
\* cache present, construction uses the cache contents as the index without
\* a walk, a parse, a progress call or a cache write, and files added or
\* removed after the cache was written are not reflected in list_runs.
C10_CacheHitSkipsWalk == [][CacheHitStep]_vars /\ []CacheHitFrozen

\* A store constructed from the cache listed its runs after the archive had
\* changed, and the list is not what the archive holds.
C10_Witness ==
  /\ result.op = "list_runs"
  /\ stores[result.store].from_cache
  /\ result.args = NoFilters(result.args)
  /\ fs_ops > 0
  /\ PathSet(result.value) # Parseable(files)

(***************************************************************************)
(* Properties of construction                                              *)
(***************************************************************************)

\* A construction with caching enabled, over a root that is a directory,
\* while the cache file is missing, cannot be opened or does not parse:
\* it returns, having walked the archive, and the store holds the index of
\* the files that parse, which list_runs answers from.
CacheMissStep ==
  \A s \in Stores :
    (/\ stores[s].status = "none" /\ stores'[s].status # "none"
     /\ result'.use_cache
     /\ root = "dir"
     /\ cache.kind # "json")
      => /\ result'.status = "ok"
         /\ Head(result'.events) = CacheEvent("load_cache")
         /\ \E i \in 1..Len(result'.events) : result'.events[i].e = "walk"
         /\ stores'[s].status = "ready"
         /\ ~stores'[s].from_cache
         /\ HoldsExactly(stores'[s].index, Parseable(files))
         /\ \A q \in PlainQueries :
              PathSet(list_runs(stores'[s].index, q)) \subseteq Parseable(files)

\* C11: cache load failure is non-fatal.  Whenever the cache artifact is
\* missing or cannot be read or parsed, construction with caching enabled
\* does not raise because of the cache: it treats the cache as absent,
\* performs a full rebuild, and the store ends up with a queryable index.
C11_CacheLoadFailure == [][CacheMissStep]_vars

\* A store was constructed with caching enabled while the cache path could
\* not be opened, and it indexed the archive.
C11_Witness ==
  /\ Rebuilt
  /\ result.use_cache
  /\ result.status = "ok"
  /\ cache = CacheIsDirectory
  /\ Len(QueriedIndex.runs) >= 1

\* A construction over a root that is not an existing directory raises the
\* error of its case, having done nothing else: no cache read, no walk, no
\* progress call, no cache write; the store has no index and the root, the
\* files and the cache are as they were.
ConstructErrorStep ==
  \A s \in Stores :
    (stores[s].status = "none" /\ stores'[s].status # "none" /\ root # "dir")
      => /\ result'.op = "construct"
         /\ result'.status = (IF root = "missing" THEN "FileNotFoundError"
                              ELSE "NotADirectoryError")
         /\ result'.events = <<>>
         /\ stores'[s].status = "failed"
         /\ stores'[s].index = NoIndex
         /\ root' = root /\ files' = files /\ cache' = cache

\* C12: construction errors.  Constructing a store fails with a not-found
\* error if the archive root does not exist and with a not-a-directory error
\* if it exists but is not a directory; in both cases the failure happens
\* before any cache read, directory walk, progress callback or cache write,
\* so no index is created and the filesystem is left unchanged.
C12_ConstructionErrors == [][ConstructErrorStep]_vars

\* A construction with caching and a progress callback was tried over a
\* root that is a file.
C12_Witness ==
  /\ result.op = "construct"
  /\ result.status = "NotADirectoryError"
  /\ result.use_cache /\ result.progress_callback
  /\ root = "file"
  /\ stores[result.store].status = "failed"

\* C13 as stated: after a construction that rebuilt the index, the cache
\* file holds exactly the index the store built.
C13_AsStated ==
  Rebuilt => cache.kind = "json" /\ cache.index = QueriedIndex

\* What a rebuilding construction does to the cache file.  With caching
\* enabled it overwrites the file: with the JSON form of the built index
\* (dict keys written as strings), or, when the index cannot be serialised,
\* with a truncated document; a path that cannot be opened for writing
\* stays as it is.  With caching disabled the file is not touched.
FreshBuildStep ==
  \A s \in Stores :
    (/\ stores[s].status = "none" /\ stores'[s].status = "ready"
     /\ ~stores'[s].from_cache)
      => IF ~result'.use_cache \/ cache.kind = "directory"
         THEN cache' = cache
         ELSE IF \A i \in 1..Len(stores'[s].index.runs) :
                   stores'[s].index.runs[i].tags.t # "date"
         THEN /\ cache'.kind = "json"
              /\ cache'.index.version = stores'[s].index.version
              /\ cache'.index.created_at = stores'[s].index.created_at
              /\ cache'.index.total_runs = stores'[s].index.total_runs
              /\ RunFilenames(cache'.index.runs) = RunFilenames(stores'[s].index.runs)
              /\ \A i \in 1..Len(cache'.index.runs) :
                   cache'.index.runs[i] = JsonRun(stores'[s].index.runs[i])
         ELSE cache'.kind = "partial"

\* C13: fresh build supersedes the cache.  Whenever construction with
\* caching enabled performs a full rebuild, the cache file is overwritten:
\* afterwards it holds the JSON form of the freshly built index, or a
\* truncated document when the index cannot be serialised, and nothing of
\* its previous content; a cache path that cannot be opened for writing stays
\* as it was, and a rebuild with caching disabled leaves the cache alone.
C13_FreshBuildSupersedes == [][FreshBuildStep]_vars

\* A rebuild with caching enabled wrote the index of an archive with
\* several runs to the cache file, where the integer key of one run is a
\* string.
C13_Witness ==
  /\ Rebuilt
  /\ result.use_cache
  /\ files = MixedArchive /\ fs_ops = 0
  /\ stores[1].status = "ready" /\ stores[2].status = "none"
  /\ cache.kind = "json"
  /\ cache.index.created_at = QueriedIndex.created_at
  /\ cache.index.runs # QueriedIndex.runs

(***************************************************************************)
(* Properties of the index after construction                              *)
(***************************************************************************)

QueryOps == {"list_runs", "load_run_metadata", "get_most_recent_run", "health_check"}

\* A call of one of the four query methods leaves every store's index, the
\* cache file and the archive as they were.
QueryStep ==
  (result = NoResult /\ result'.op \in QueryOps)
    => stores' = stores /\ cache' = cache /\ files' = files

\* After a load that read a file the index does not hold, the index still
\* does not hold the path, and no list_runs query returns it.
FallbackLeavesIndex ==
  (MissedIndex /\ result.status = "ok")
    => \A q \in PlainQueries :
         /\ result.args \notin PathSet(list_runs(QueriedIndex, q))
         /\ PathSet(list_runs(QueriedIndex, q))
              \subseteq PathSet(RunFilenames(QueriedIndex.runs))

\* C14: index immutability after construction.  No sequence of list_runs,
\* load_run_metadata (index hit or filesystem fallback), get_most_recent_run
\* and health_check calls changes the store's index or the cache artifact;
\* a fallback load of a path missing from the index does not add that path
\* to the index, so a later list_runs still does not return it.
C14_IndexImmutable == [][QueryStep]_vars /\ []FallbackLeavesIndex

\* A store answered a load from a file that its index does not hold, and
\* its index holds other runs.
C14_Witness ==
  /\ MissedIndex
  /\ result.status = "ok"
  /\ result.reads = {FileKey(result.args)}
  /\ Len(QueriedIndex.runs) >= 2
  /\ cache.kind = "json"

(***************************************************************************)
(* Properties of the rebuild                                               *)
(***************************************************************************)

\* The positions of the events of one kind in the last call's record.
Events(kind) == {i \in 1..Len(result.events) : result.events[i].e = kind}

Before(earlier, later) == \A i \in earlier, j \in later : i < j

\* The last call was a rebuild that was given a progress callback.
RebuiltWithCallback == Rebuilt /\ result.progress_callback

\* The callback is called once with "start" and once with "complete", and
\* between the two nothing happens but the loading of files.
TwoCalls ==
  /\ Cardinality(Events("start")) = 1
  /\ Cardinality(Events("complete")) = 1
  /\ Before(Events("start"), Events("complete"))
  /\ \A i \in 1..Len(result.events) :
       (/\ \E s \in Events("start") : s < i
        /\ \E c \in Events("complete") : i < c)
         => result.events[i].e = "load"
  /\ \A i \in Events("start") :
       /\ result.events[i].current = 0
       /\ result.events[i].total = Cardinality(VisibleFiles(files))
  /\ \A i \in Events("complete") :
       /\ result.events[i].current = Cardinality(VisibleFiles(files))
       /\ result.events[i].total = Cardinality(VisibleFiles(files))
  /\ Cardinality(Events("load")) = Cardinality(VisibleFiles(files))

\* C15 as stated: "start" comes before the walk that collects the run
\* files, and "complete" after the records are sorted and the total count
\* is recorded.
C15_AsStated ==
  RebuiltWithCallback =>
    /\ TwoCalls
    /\ Before(Events("start"), Events("walk"))
    /\ Before(Events("sort"), Events("complete"))
    /\ Before(Events("total_runs"), Events("complete"))

\* C15: progress callback protocol.  During a rebuild with a progress
\* callback the callback is invoked exactly twice: first with phase "start"
\* and the number of collected files, after the walk has collected the run
\* files and before the first of them is loaded; last with phase
\* "complete", after all records are accumulated and before the total count
\* is recorded and the records are sorted.  No per-file invocation happens
\* in between.
C15_ProgressProtocol ==
  RebuiltWithCallback =>
    /\ TwoCalls
    /\ Before(Events("walk"), Events("start"))
    /\ Before(Events("start"), Events("load"))
    /\ Before(Events("load"), Events("complete"))
    /\ Before(Events("complete"), Events("total_runs"))
    /\ Before(Events("total_runs"), Events("sort"))
    /\ Events("walk") # {} /\ Events("total_runs") # {} /\ Events("sort") # {}

\* A rebuild with a callback collected several files, one of which did not
\* parse: the total the callback saw is not the number of indexed runs.
C15_Witness ==
  /\ RebuiltWithCallback
  /\ Cardinality(VisibleFiles(files)) >= 3
  /\ QueriedIndex.total_runs < Cardinality(VisibleFiles(files))

(***************************************************************************)
(* Properties of the time range                                            *)
(***************************************************************************)

\* The instant an ISO string names as the start of a range: a date alone
\* is the beginning of its day.
StartInstant(iso) ==
  IF Len(iso) = 10 THEN FromIsoFormat(iso \o <<"T", "0", "0", ":", "0", "0", ":", "0", "0">>).dt
  ELSE FromIsoFormat(iso).dt

\* The instant an ISO string names as the end of a range: a date alone
\* stands for the whole day.
EndInstant(iso) ==
  IF Len(iso) = 10
  THEN FromIsoFormat(iso \o <<"T", "2", "3", ":", "5", "9", ":", "5", "9", ".", "9", "9", "9", "9", "9", "9">>).dt
  ELSE FromIsoFormat(iso).dt

\* The record's time lies in the range, both ends included; a missing end
\* does not bound.
WithinRange(r, time_range) ==
  /\ time_range.start.some
       => DtLE(StartInstant(time_range.start.v), FromIsoFormat(r.timestamp).dt)
  /\ time_range.end.some
       => DtLE(FromIsoFormat(r.timestamp).dt, EndInstant(time_range.end.v))

\* The last call was list_runs with a time range and nothing else.
TimeRangeQuery ==
  /\ result.op = "list_runs"
  /\ ~result.args.time_range.isNone
  /\ result.args = OnlyTimeRange(result.args)

\* C16: the time range is inclusive on both ends.  list_runs with a time
\* range of ISO strings returns exactly the records whose time t satisfies
\* start <= t <= end in chronological order; a record stamped exactly at
\* start or at end, or at any time on an end given as a date, is included;
\* a missing start or end leaves that side unbounded.
C16_TimeRangeInclusive ==
  TimeRangeQuery =>
    PathSet(result.value) =
      {QueriedIndex.runs[i].run_filename :
         i \in {j \in 1..Len(QueriedIndex.runs) :
                  WithinRange(QueriedIndex.runs[j], result.args.time_range)}}

\* What the claim asks of an indexed path: it lies below a top-level
\* directory, ends with .yaml, and none of its segments starts with ".".
VisiblePath(path) ==
  /\ Len(Split(path, "/")) >= 2
  /\ SubSeq(path, Len(path) - 4, Len(path)) = <<".", "y", "a", "m", "l">>
  /\ \A i \in 1..Len(Split(path, "/")) :
       Split(path, "/")[i] # <<>> /\ Head(Split(path, "/")[i]) # "."

NoRepeats(paths) ==
  \A i, j \in 1..Len(paths) : paths[i] = paths[j] => i = j

\* C17: hidden entries are never indexed.  Every path in a rebuilt index,
\* and every path list_runs returns, lies below a top-level directory of
\* the archive root, ends with the .yaml extension and has no path segment
\* starting with "."; each indexed path occurs at most once.
C17_HiddenNeverIndexed ==
  /\ Rebuilt =>
       /\ \A i \in 1..Len(QueriedIndex.runs) :
            VisiblePath(QueriedIndex.runs[i].run_filename)
       /\ NoRepeats(RunFilenames(QueriedIndex.runs))
  /\ result.op = "list_runs" =>
       /\ \A i \in 1..Len(result.value) : VisiblePath(result.value[i])
       /\ NoRepeats(result.value)

\* A rebuild indexed several runs of an archive that also holds a file in
\* a hidden directory, a hidden file, a file in a hidden top-level
\* directory, a file that is not *.yaml and a file directly in the root.
C17_Witness ==
  /\ Rebuilt
  /\ Len(QueriedIndex.runs) >= 3
  /\ \A p \in {Run.H, Run.S, Run.N, Run.P, Run.Q} : files[p].exists

(***************************************************************************)
(* Properties of the beamline                                              *)
(***************************************************************************)

\* The text of a relative path before its first "/".
FirstSegment(path) ==
  SubSeq(path, 1, MinOf({i \in 1..Len(path) : path[i] = "/"} \cup {Len(path) + 1}) - 1)

\* C18: the beamline is directory-derived.  The beamline of every record of
\* an index is the first segment of the record's relative path, whatever
\* the file says; list_runs(beamline=X) returns only paths that start with
\* "X/", and load_run_metadata of a path reports the first segment of the
\* path as its beamline.
C18_BeamlineFromDirectory ==
  /\ (result.op = "construct" /\ result.status = "ok") =>
       \A i \in 1..Len(QueriedIndex.runs) :
         QueriedIndex.runs[i].beamline
           = FirstSegment(QueriedIndex.runs[i].run_filename)
  /\ (result.op = "list_runs" /\ result.args.beamline.some) =>
       \A i \in 1..Len(result.value) :
         /\ FirstSegment(result.value[i]) = result.args.beamline.v
         /\ Len(result.value[i]) > Len(result.args.beamline.v)
  /\ (result.op = "load_run_metadata" /\ result.status = "ok") =>
       result.value.beamline = FirstSegment(result.args)

\* list_runs(beamline=cu_hxr) returned two runs of an index that also
\* holds cu_sxr/lcls-2025-10-10-154343.yaml, a run whose document names
\* another beamline.
C18_Witness ==
  /\ result.op = "list_runs"
  /\ result.args.beamline = Some(Seg.cu_hxr)
  /\ Len(result.value) = 2
  /\ \E i \in 1..Len(QueriedIndex.runs) :
       /\ QueriedIndex.runs[i].run_filename = Run.B
       /\ QueriedIndex.runs[i].run_name = "run_b"
       /\ QueriedIndex.runs[i].beamline = Seg.cu_sxr

(***************************************************************************)
(* Properties of get_most_recent_run                                       *)
(***************************************************************************)

\* list_runs(limit=1) with the filters of the last call, newest first.
NewestQuery ==
  [time_range |-> NoRange, limit |-> Some(1), beamline |-> result.args.beamline,
   algorithm |-> result.args.algorithm,
   badger_environment |-> result.args.badger_environment,
   objective |-> result.args.objective, sort_order |-> "newest_first"]

\* The positions of the index records that pass the filters of the last call.
RecentMatches ==
  {i \in 1..Len(QueriedIndex.runs) : Satisfies(QueriedIndex.runs[i], NewestQuery)}

\* C19: most-recent lookup.  For every combination of beamline, algorithm,
\* badger_environment and objective filters, get_most_recent_run returns
\* the first element of list_runs(limit=1, same filters) in newest_first
\* order, which is the path of a matching record with maximal timestamp,
\* and it returns None, without raising, when no record matches.
C19_MostRecentLookup ==
  result.op = "get_most_recent_run" =>
    /\ result.status = "ok"
    /\ IF RecentMatches = {}
       THEN /\ result.value = None
            /\ list_runs(QueriedIndex, NewestQuery) = <<>>
       ELSE /\ result.value.some
            /\ list_runs(QueriedIndex, NewestQuery) = <<result.value.v>>
            /\ \E i \in RecentMatches :
                 /\ QueriedIndex.runs[i].run_filename = result.value.v
                 /\ \A j \in RecentMatches :
                      DtLE(FromIsoFormat(QueriedIndex.runs[j].timestamp).dt,
                           FromIsoFormat(QueriedIndex.runs[i].timestamp).dt)

\* A lookup with a beamline and an algorithm filter returned one of
\* several matching runs, which are not all of the same time.
C19_Witness ==
  /\ result.op = "get_most_recent_run"
  /\ result.args.beamline.some /\ result.args.algorithm.some
  /\ result.value.some
  /\ Cardinality(RecentMatches) >= 2
  /\ \E j \in RecentMatches :
       QueriedIndex.runs[j].timestamp
         # QueriedIndex.runs[PositionOf(QueriedIndex, result.value.v)].timestamp

(***************************************************************************)
(* Properties of extract_timestamp_from_filename                           *)
(***************************************************************************)

\* The hyphen-delimited segments of a file name without its extension.
NameSegments(name) == Split(SubSeq(name, 1, Len(name) - Len(YamlExt)), "-")

\* The date and time fields of a name of at least five segments: the last
\* four segments, the last one cut into hour, minute and second.
StampFields(name) ==
  LET parts == NameSegments(name)
  IN  <<parts[Len(parts) - 3], parts[Len(parts) - 2], parts[Len(parts) - 1],
        SubSeq(parts[Len(parts)], 1, 2), SubSeq(parts[Len(parts)], 3, 4),
        SubSeq(parts[Len(parts)], 5, 6)>>

\* The name has at least five segments and its last four are a year, a
\* month, a day (digits, at most four, two and two of them) and a time of
\* six digits that form a valid date and time.
Stamped(name) ==
  /\ Len(NameSegments(name)) >= 5
  /\ Len(NameSegments(name)[Len(NameSegments(name))]) = 6
  /\ \A i \in 1..6 : AllDigits(StampFields(name)[i])
  /\ Len(StampFields(name)[1]) <= 4
  /\ Len(StampFields(name)[2]) <= 2
  /\ Len(StampFields(name)[3]) <= 2
  /\ ValidDateTime(DigitsValue(StampFields(name)[1]), DigitsValue(StampFields(name)[2]),
                   DigitsValue(StampFields(name)[3]), DigitsValue(StampFields(name)[4]),
                   DigitsValue(StampFields(name)[5]), DigitsValue(StampFields(name)[6]))

StampOf(name) ==
  DateTime(DigitsValue(StampFields(name)[1]), DigitsValue(StampFields(name)[2]),
           DigitsValue(StampFields(name)[3]), DigitsValue(StampFields(name)[4]),
           DigitsValue(StampFields(name)[5]), DigitsValue(StampFields(name)[6]), 0)

\* C20: timestamp parsing.  For a file name of at least five hyphen-
\* delimited segments whose last four are YYYY, MM, DD and HHMMSS forming a
\* valid date and time (the environment part may contain hyphens),
\* extract_timestamp_from_filename returns exactly that date-time; for
\* every other file name it returns no value and never raises, and the
\* metadata extraction then uses the file's modification time.
C20_TimestampParsing ==
  /\ result.op = "extract_timestamp_from_filename" =>
       /\ result.status = "ok"
       /\ IF Stamped(result.args)
          THEN result.value.kind = "ok" /\ result.value.dt = StampOf(result.args)
          ELSE result.value.kind = "none"
  /\ (result.op = "load_run_metadata" /\ FileKey(result.args) \in DOMAIN files) =>
       /\ result.status = "ok"
       /\ result.value.timestamp =
            IF Stamped(PathName(result.args)) THEN StampOf(PathName(result.args))
            ELSE files[FileKey(result.args)].mtime

(***************************************************************************)
(* Properties of metadata extraction                                       *)
(***************************************************************************)

\* The text of a mapping key, which is what a JSON document keeps of it.
KeyText(k) == IF k.t = "int" THEN ToString(k.i) ELSE k.s

\* The vocs section of the document stored at a path.
VocsOf(path, field) ==
  Get(Get(Yaml(files[FileKey(path)].doc).m, "vocs", <<>>), field, <<>>)

\* pairs lists the entries of mapping one by one, in the mapping's order.
SameOrder(pairs, mapping) ==
  /\ Len(pairs) = Len(mapping)
  /\ \A i \in 1..Len(pairs) :
       /\ Len(pairs[i]) = 1
       /\ KeyText(pairs[i][1].k) = KeyText(mapping[i].k)
       /\ pairs[i][1].v = mapping[i].v

OrderKept(record, path) ==
  /\ SameOrder(record.variables, VocsOf(path, "variables"))
  /\ SameOrder(record.objectives, VocsOf(path, "objectives"))
  /\ SameOrder(record.constraints, VocsOf(path, "constraints"))

\* C21: the variables, objectives and constraints of a record are one
\* single-entry pair per entry of the document's mapping, as many as the
\* mapping has and in the mapping's order; this holds of the records of
\* every index (built or loaded from the cache), of the records in the cache
\* file and of what load_run_metadata returns by either branch.
C21_OrderPreservation ==
  /\ \A s \in Stores :
       stores[s].status = "ready" =>
         \A i \in 1..Len(stores[s].index.runs) :
           OrderKept(stores[s].index.runs[i], stores[s].index.runs[i].run_filename)
  /\ cache.kind = "json" =>
       \A i \in 1..Len(cache.index.runs) :
         OrderKept(cache.index.runs[i], cache.index.runs[i].run_filename)
  /\ (result.op = "load_run_metadata" /\ result.status = "ok") =>
       OrderKept(result.value, result.args)

\* A store that took its index from the cache returned the variables of a
\* run as y-then-x, the order of its file, which alphabetical order is not.
C21_Witness ==
  /\ result.op = "load_run_metadata"
  /\ result.status = "ok"
  /\ result.reads = {}
  /\ stores[result.store].from_cache
  /\ Len(result.value.variables) = 2
  /\ result.value.variables[1][1].k = StrKey("y")
  /\ result.value.variables[2][1].k = StrKey("x")

\* The data section of the document stored at a path.
DataOf(path) == Get(Yaml(files[FileKey(path)].doc).m, "data", <<>>)

\* The entries of a value series by ascending integer index.
InIndexOrder(m) ==
  LET present == SelectSeq([i \in 1..10 |-> i - 1],
                           LAMBDA i : ToString(i) \in DOMAIN m)
  IN  [j \in 1..Len(present) |-> m[ToString(present[j])]]

\* The objectives of a loaded record whose column in the data section of
\* the file is a series with at least one entry.
WithSeries(record, path) ==
  {i \in 1..Len(record.objectives) :
     /\ HasKey(DataOf(path), record.objectives[i][1].k)
     /\ ~GetItem(DataOf(path), record.objectives[i][1].k).isNone
     /\ DOMAIN GetItem(DataOf(path), record.objectives[i][1].k).m # {}}

\* The statistics of a record were extracted: the four maps are dicts.
HasStats(record) ==
  /\ {"initial_values", "min_values", "max_values", "final_values"}
       \subseteq DOMAIN record
  /\ ~record.initial_values.isNone /\ ~record.final_values.isNone
  /\ ~record.min_values.isNone /\ ~record.max_values.isNone

LoadedRecord ==
  result.op = "load_run_metadata" /\ result.status = "ok"

\* C22: in a record with statistics, every objective that has a value
\* series has an initial value, the series' entry of index 0, and a final
\* value, the series' entry of the largest index, null or not.
C22_InitialAndFinal ==
  (LoadedRecord /\ HasStats(result.value)) =>
    \A i \in WithSeries(result.value, result.args) :
      LET obj    == result.value.objectives[i][1].k
          series == GetItem(DataOf(result.args), obj).m
      IN  /\ HasKey(result.value.initial_values.items, obj)
          /\ HasKey(result.value.final_values.items, obj)
          /\ "0" \in DOMAIN series
          /\ GetItem(result.value.initial_values.items, obj) = series["0"]
          /\ GetItem(result.value.final_values.items, obj)
               = InIndexOrder(series)[Len(InIndexOrder(series))]

\* The numbers among the entries of a value series.
NumbersOf(m) == {m[k].n : k \in {j \in DOMAIN m : ~m[j].null}}

KeysOf(dict) == {dict.items[i].k : i \in 1..Len(dict.items)}

\* C23: in a record with statistics, the minimum and the maximum of every
\* objective that has a value series are the smallest and the largest number
\* of the series, so that every number of the series lies between them; they
\* are null when the series holds no number, and the initial and the final
\* value are reported all the same; the four maps have the same keys.
C23_MinAndMax ==
  (LoadedRecord /\ HasStats(result.value)) =>
    /\ KeysOf(result.value.min_values) = KeysOf(result.value.initial_values)
    /\ KeysOf(result.value.max_values) = KeysOf(result.value.initial_values)
    /\ KeysOf(result.value.final_values) = KeysOf(result.value.initial_values)
    /\ \A i \in WithSeries(result.value, result.args) :
         LET obj  == result.value.objectives[i][1].k
             nums == NumbersOf(GetItem(DataOf(result.args), obj).m)
         IN  /\ obj \in KeysOf(result.value.initial_values)
             /\ IF nums = {}
                THEN /\ GetItem(result.value.min_values.items, obj) = Null
                     /\ GetItem(result.value.max_values.items, obj) = Null
                ELSE /\ ~GetItem(result.value.min_values.items, obj).null
                     /\ ~GetItem(result.value.max_values.items, obj).null
                     /\ \A n \in nums :
                          /\ GetItem(result.value.min_values.items, obj).n <= n
                          /\ n <= GetItem(result.value.max_values.items, obj).n
                     /\ GetItem(result.value.min_values.items, obj).n \in nums
                     /\ GetItem(result.value.max_values.items, obj).n \in nums

ParsesAsMapping(path) ==
  FileExists(files, path) /\ Yaml(files[FileKey(path)].doc).kind = "map"

\* C24: a run file that parses as a mapping never loses its record to a
\* failure of the statistics: load_run_metadata returns a record for it, and
\* every index holds a record of it when the walk collects it.
C24_StatisticsFailures ==
  /\ (result.op = "load_run_metadata" /\ ParsesAsMapping(result.args)) =>
       result.status = "ok"
  /\ \A s \in Stores :
       stores[s].status = "ready" =>
         \A f \in VisibleFiles(files) :
           ParsesAsMapping(f) => InIndex(stores[s].index, f)

\* C26: every record load_run_metadata returns, from the index or from the
\* file, has the keys initial_values, min_values, max_values and
\* final_values.
C26_ResultShape ==
  LoadedRecord =>
    {"initial_values", "min_values", "max_values", "final_values"}
      \subseteq DOMAIN result.value

(***************************************************************************)
(* Properties of the capabilities                                          *)
(***************************************************************************)

\* C25: the direction looked up for an objective name on a run is the one
\* the run's objective list stores for that name when the list has the
\* name, and MAXIMIZE when it has not (an empty list included).
C25_ObjectiveDirectionDefault ==
  result.op = "get_objective_direction" =>
    IF \E i \in 1..Len(result.run.objectives) :
         result.run.objectives[i][1].k = result.args
    THEN \E i \in 1..Len(result.run.objectives) :
           /\ result.run.objectives[i][1].k = result.args
           /\ result.value = result.run.objectives[i][1].v
    ELSE result.value = "MAXIMIZE"

\* The direction of g was looked up on a run whose only objective is f, to
\* be minimized: the answer is the default, not the direction of f.
C25_Witness ==
  /\ result.op = "get_objective_direction"
  /\ result.args = StrKey("g")
  /\ Len(result.run.objectives) = 1
  /\ result.run.objectives[1][1] = Item(StrKey("f"), "MINIMIZE")
  /\ result.value = "MAXIMIZE"

\* The file of a path does not make a valid run context.
FailsToLoad(path) ==
  \/ LoadFromFile(files, path).status # "ok"
  \/ ~BadgerRunContext(path, LoadFromFile(files, path).md).valid

\* C27: query_runs never raises over a readable archive; only paths whose
\* run cannot be loaded are skipped; the container holds the runs of the
\* other paths, in the order list_runs returned them; a container is stored
\* exactly when it holds a run, so that a stored container is never empty
\* and nothing is stored when no path matched or every load failed.
C27_BulkLoadIsolation ==
  result.op = "query_runs" =>
    /\ result.status = "ok"
    /\ \A p \in result.failed : FailsToLoad(p)
    /\ [i \in 1..Len(result.runs) |-> result.runs[i].run_filename]
         = SelectSeq(result.run_paths, LAMBDA p : p \notin result.failed)
    /\ result.stored <=> result.runs # <<>>
    /\ (result.run_paths = <<>> \/ PathSet(result.run_paths) \subseteq result.failed)
         => ~result.stored

\* The first of three paths failed to load and the two after it are in the
\* stored container.
C27_Witness ==
  /\ result.op = "query_runs"
  /\ Len(result.run_paths) = 3
  /\ result.failed = {result.run_paths[1]}
  /\ result.stored
  /\ Len(result.runs) = 2
  /\ result.runs[1].run_filename = result.run_paths[2]
  /\ result.runs[2].run_filename = result.run_paths[3]

\* The seven beamline names.
BeamlineNames ==
  {<<"c", "u", "_", "h", "x", "r">>, <<"c", "u", "_", "s", "x", "r">>,
   <<"s", "c", "_", "b", "s", "y", "d">>, <<"s", "c", "_", "d", "i", "a", "g", "0">>,
   <<"s", "c", "_", "s", "x", "r">>, <<"s", "c", "_", "h", "x", "r">>,
   <<"d", "e", "v">>}

\* C28: the beamline of every RUN_QUERY_FILTERS context extract_run_filters
\* stores is None or one of the seven beamline names.
C28_BeamlineFilterValidity ==
  result.op = "extract_run_filters" =>
    \/ result.value.beamline = None
    \/ /\ result.value.beamline.some
       /\ result.value.beamline.v \in BeamlineNames

\* C29: the total the progress callback is given with "complete" is the
\* number of records of the index the rebuild produced.
C29_ReportedIndexSize ==
  RebuiltWithCallback =>
    \A i \in Events("complete") :
      result.events[i].total = QueriedIndex.total_runs

(***************************************************************************)
(* Properties of concurrent construction                                   *)
(***************************************************************************)

\* The index is what a rebuild of the archive produces: one record for each
\* parseable run file and no other.
FullBuild(index) == HoldsExactly(index, Parseable(files))

\* The instances that rebuilt the index and have written to the cache file.
Writers ==
  {t \in DOMAIN stores :
     stores[t].status \in {"half", "ready"} /\ ~stores[t].from_cache}

\* The claim as stated: every constructed instance has the index of a full
\* build, whatever the interleaving.
C30_AsStated ==
  \A s \in DOMAIN stores :
    stores[s].status = "ready" => FullBuild(stores[s].index)

\* C30: under every interleaving, an instance that rebuilt has the index of
\* a full build, and so has an instance that took its index from the cache
\* unless two other instances have both written to the file before; with
\* fewer than two writers a file that lacks a block is never taken for an
\* index.
C30_ConcurrentConstruction ==
  /\ \A s \in DOMAIN stores :
       (stores[s].status \in {"opened", "half", "ready"} /\ ~stores[s].from_cache)
         => FullBuild(stores[s].index)
  /\ \A s \in DOMAIN stores :
       (stores[s].status = "ready" /\ stores[s].from_cache)
         => \/ FullBuild(stores[s].index)
            \/ Cardinality(Writers \ {s}) >= 2

\* One instance rebuilt and wrote the cache file, a second one found the
\* file incomplete meanwhile and rebuilt too, and the third took the index
\* of a full build from the cache.
C30_Witness ==
  \E s, t, u \in DOMAIN stores :
    /\ stores[s].status = "ready" /\ stores[s].from_cache
    /\ FullBuild(stores[s].index)
    /\ stores[t].status = "ready" /\ ~stores[t].from_cache
    /\ stores[u].status = "opened"

====
